---- MODULE Spec2Model ----
(***************************************************************************)
(* A model of the ABAC policy generator (policy_simulator.py): template    *)
(* expansion, per-user attribute rules, weighted action resolution,        *)
(* deduplication with majority vote, budget-driven generalization with     *)
(* four distribution strategies, and backfill.                             *)
(*                                                                         *)
(* Strings that the program takes apart (topics, templates) are sequences  *)
(* of tokens: "/" and "#" are tokens of their own, a placeholder "{name}"  *)
(* is one token, and every other token is a non-empty piece of text that   *)
(* holds neither "/" nor "#".  Strings the program only builds and         *)
(* compares (static, dynamic, filter, hints, action) are TLA+ strings.     *)
(***************************************************************************)
EXTENDS Integers, Sequences, FiniteSets, TLC

VARIABLES
    cfg,          \* the loaded configuration (load_config)
    args,         \* the parsed command line: max_policies, seed
    pc,           \* position of main()
    rng,          \* the module-level generator of `random`
    todo,         \* rule instances whose action is still to be chosen
    rules,        \* the raw rule list
    grouped,      \* dict of identity key -> rep, action_counts (insertion order)
    gi,           \* index of the next entry to finalize / resolve
    uniq,         \* the rule list handed on (uniq)
    n_uniq,       \* len(uniq) right after deduplication
    by_pattern,   \* dict of (pattern, static, priority) -> entry
    generalized,  \* whether the generalization branch was taken
    out,          \* the list handed to write_sql (<<>> before that)
    run,          \* which run of the program this is (1, or 2 for a repeated run)
    first_out,    \* the list the first run handed to write_sql
    threads,      \* the worker threads of a traffic simulator, by name
    sim           \* main() of the traffic simulator: its program and position

\* The state of the policy generator, and that of the traffic simulators.
genvars == <<cfg, args, pc, rng, todo, rules, grouped, gi, uniq, n_uniq,
             by_pattern, generalized, out, run, first_out>>
simvars == <<threads, sim>>

vars == <<cfg, args, pc, rng, todo, rules, grouped, gi, uniq, n_uniq,
          by_pattern, generalized, out, run, first_out, threads, sim>>

-----------------------------------------------------------------------------
(* Generic sequence helpers *)

Last(s) == s[Len(s)]

RECURSIVE Flatten(_)
Flatten(ss) == IF ss = <<>> THEN <<>> ELSE Head(ss) \o Flatten(Tail(ss))

RECURSIVE SumSeq(_)
SumSeq(s) == IF s = <<>> THEN 0 ELSE Head(s) + SumSeq(Tail(s))

Max2(a, b) == IF a >= b THEN a ELSE b
Min2(a, b) == IF a <= b THEN a ELSE b

\* The index of the first element of s satisfying Test, 0 when there is none.
FirstIndex(s, Test(_)) ==
    IF \E i \in 1..Len(s) : Test(s[i])
    THEN CHOOSE i \in 1..Len(s) : Test(s[i]) /\ \A j \in 1..(i-1) : ~Test(s[j])
    ELSE 0

\* Tuples of numbers compare lexicographically, as Python's tuples do.
RECURSIVE LexLess(_, _)
LexLess(a, b) ==
    IF a = <<>> \/ b = <<>> THEN a = <<>> /\ b /= <<>>
    ELSE IF Head(a) /= Head(b) THEN Head(a) < Head(b)
    ELSE LexLess(Tail(a), Tail(b))

\* list.sort(key=...) is stable.  keys[i] is the key of element i; the result
\* is the order of the indices after the sort (insertion after the last
\* element whose key is not greater).
RECURSIVE InsertSorted(_, _, _)
InsertSorted(i, order, keys) ==
    IF order = <<>> THEN <<i>>
    ELSE IF LexLess(keys[i], keys[Head(order)]) THEN <<i>> \o order
    ELSE <<Head(order)>> \o InsertSorted(i, Tail(order), keys)

RECURSIVE SortedOrder(_, _)
SortedOrder(n, keys) ==
    IF n = 0 THEN <<>> ELSE InsertSorted(n, SortedOrder(n - 1, keys), keys)

StableSort(s, keys) ==
    LET order == SortedOrder(Len(s), keys)
    IN  [i \in 1..Len(s) |-> s[order[i]]]

\* An optional value (None / a value) is the empty or the one-element sequence.
None == <<>>
Some(v) == <<v>>

-----------------------------------------------------------------------------
(* Strings as token sequences *)

SLASH == "/"
HASH == "#"

RECURSIVE JoinTokens(_)
JoinTokens(t) == IF t = <<>> THEN "" ELSE Head(t) \o JoinTokens(Tail(t))

\* Canonical form: no empty token, adjacent text tokens merged.
RECURSIVE Canon(_)
Canon(t) ==
    IF t = <<>> THEN <<>>
    ELSE IF Head(t) = "" THEN Canon(Tail(t))
    ELSE LET rest == Canon(Tail(t))
         IN  IF rest /= <<>> /\ Head(t) \notin {SLASH, HASH}
                /\ Head(rest) \notin {SLASH, HASH}
             THEN <<Head(t) \o Head(rest)>> \o Tail(rest)
             ELSE <<Head(t)>> \o rest

\* str.replace('//', '/'): one left-to-right pass over non-overlapping pairs.
RECURSIVE ReplaceDoubleSlash(_)
ReplaceDoubleSlash(t) ==
    IF Len(t) < 2 THEN t
    ELSE IF t[1] = SLASH /\ t[2] = SLASH
         THEN <<SLASH>> \o ReplaceDoubleSlash(SubSeq(t, 3, Len(t)))
         ELSE <<t[1]>> \o ReplaceDoubleSlash(Tail(t))

\* str.strip('/')
RECURSIVE LStripSlash(_)
LStripSlash(t) ==
    IF t /= <<>> /\ Head(t) = SLASH THEN LStripSlash(Tail(t)) ELSE t

RECURSIVE RStripSlash(_)
RStripSlash(t) ==
    IF t /= <<>> /\ Last(t) = SLASH
    THEN RStripSlash(SubSeq(t, 1, Len(t) - 1)) ELSE t

StripSlash(t) == RStripSlash(LStripSlash(t))

\* topic.replace('//', '/'); topic.strip('/'); '' -> '#'
NormalizeTopic(t) ==
    LET s == StripSlash(ReplaceDoubleSlash(t))
    IN  IF s = <<>> THEN <<HASH>> ELSE s

\* str.split(sep): the pieces between the separators (always at least one).
RECURSIVE SplitOn(_, _)
SplitOn(t, sep) ==
    LET i == FirstIndex(t, LAMBDA x : x = sep)
    IN  IF i = 0 THEN <<t>>
        ELSE <<SubSeq(t, 1, i - 1)>> \o SplitOn(SubSeq(t, i + 1, Len(t)), sep)

-----------------------------------------------------------------------------
(* str.format *)

FieldNames == {"b", "fl", "r", "dev", "buildings", "floors", "rooms",
               "device_types", "devices", "v", "v_plus", "zz"}

Ph(n) == "{" \o n \o "}"

IsPlaceholder(tok) == \E n \in FieldNames : Ph(n) = tok

FieldOf(tok) == CHOOSE n \in FieldNames : Ph(n) = tok

\* The field names a template uses (string.Formatter().parse).
TemplateFields(t) ==
    {FieldOf(t[i]) : i \in {j \in 1..Len(t) : IsPlaceholder(t[j])}}

\* template.format(**mapping): mapping is a function from names to strings.
\* ok = FALSE is the KeyError of an unknown field.
FormatTokens(t, mapping) ==
    IF TemplateFields(t) \subseteq DOMAIN mapping
    THEN [ok |-> TRUE,
          val |-> Canon([i \in 1..Len(t) |->
                     IF IsPlaceholder(t[i]) THEN mapping[FieldOf(t[i])] ELSE t[i]])]
    ELSE [ok |-> FALSE, val |-> t]

-----------------------------------------------------------------------------
(* The generator of the `random` module *)

\* Draws are points k/DrawGrid of [0, 1), k in 0..DrawGrid-1.
DrawGrid == 4
\* The seeded generator is a linear congruential one on RngModulus states.
RngModulus == 8

\* A random.seed that leaves the generator on the entropy of the system.
UnseededRng(seed) == [seeded |-> FALSE, state |-> 0]

\* random.seed(seed): the state is a function of the seed alone.
SeededRng(seed) == [seeded |-> TRUE, state |-> seed % RngModulus]

\* The draws random.random() can return: the one the state fixes when the
\* generator was seeded, any draw when it runs on the entropy of the system.
RandomDraws(g) ==
    IF g.seeded THEN {g.state % DrawGrid} ELSE 0..(DrawGrid - 1)

\* The generator after one draw.
RngStep(g) ==
    IF g.seeded THEN [g EXCEPT !.state = (5 * g.state + 3) % RngModulus] ELSE g

-----------------------------------------------------------------------------
(* choose_action *)

\* float(v) with the except branch: a non-numeric weight counts 0.
ToFloat(e) == IF e.num THEN e.w ELSE 0

\* dict.get('action', 'deny')
GetAction(policy) == IF policy.action = None THEN "deny" ELSE policy.action[1]

\* A lookup that reads the policy's own table only.
OwnProbs(policy, c) == policy.action_probabilities

\* policy.get('action_probabilities') or cfg.get('action_probabilities') or {}
EffectiveProbs(policy, c) ==
    IF policy.action_probabilities /= <<>> THEN policy.action_probabilities
    ELSE c.action_probabilities

\* Every entry of the table as an item, whatever its weight.
AllItems(probs) == probs

\* items: the entries with a positive weight, in dict order
PositiveItems(probs) == SelectSeq(probs, LAMBDA e : ToFloat(e) > 0)

TotalWeight(items) == SumSeq([i \in 1..Len(items) |-> ToFloat(items[i])])

CumWeight(items, i) == SumSeq([j \in 1..i |-> ToFloat(items[j])])

\* Whether choose_action calls random.random() for this policy.
ChooseDraws(policy, c) == PositiveItems(EffectiveProbs(policy, c)) /= <<>>

\* The first entry with r <= cum, where r = d/DrawGrid * total.
WeightedPick(items, d) ==
    LET total == TotalWeight(items)
        hit == {i \in 1..Len(items) : d * total <= CumWeight(items, i) * DrawGrid}
    IN  IF hit = {} THEN items[Len(items)].k
        ELSE items[CHOOSE i \in hit : \A j \in hit : i <= j].k

\* choose_action(policy, cfg) when random.random() returns d/DrawGrid.
choose_action(policy, c, d) ==
    LET items == PositiveItems(EffectiveProbs(policy, c))
    IN  IF items = <<>> THEN GetAction(policy) ELSE WeightedPick(items, d)

-----------------------------------------------------------------------------
(* expand_base_policies *)

\* dict[k] = v
Put(m, k, v) == [x \in (DOMAIN m) \cup {k} |-> IF x = k THEN v ELSE m[x]]

EmptyMap == [x \in {} |-> ""]

\* ex.get(d, []) or [] on a dict kept as a sequence of [key, vals]
ExGet(ex, d) ==
    LET i == FirstIndex(ex, LAMBDA e : e.key = d)
    IN  IF i = 0 THEN <<>> ELSE ex[i].vals

ExKeys(ex) == [i \in 1..Len(ex) |-> ex[i].key]

\* itertools.product(*lists): the last list varies fastest.
RECURSIVE Product(_)
Product(lists) ==
    IF lists = <<>> THEN << <<>> >>
    ELSE LET rest == Product(Tail(lists))
             hd == Head(lists)
         IN  Flatten([i \in 1..Len(hd) |->
                 [j \in 1..Len(rest) |-> <<hd[i]>> \o rest[j]]])

\* mapping[name] = val for name, val in zip(names, combo)
RECURSIVE ZipMap(_, _, _)
ZipMap(m, names, combo) ==
    IF names = <<>> \/ combo = <<>> THEN m
    ELSE ZipMap(Put(m, Head(names), Head(combo)), Tail(names), Tail(combo))

\* for alias in aliases: mapping[alias] = val
RECURSIVE PutAll(_, _, _)
PutAll(m, aliases, val) ==
    IF aliases = <<>> THEN m ELSE PutAll(Put(m, Head(aliases), val), Tail(aliases), val)

\* for dname, aliases in cfg_alias_map.items(): if dname in mapping: ...
RECURSIVE ApplyAliases(_, _)
ApplyAliases(m, alias_map) ==
    IF alias_map = <<>> THEN m
    ELSE LET e == Head(alias_map)
         IN  ApplyAliases(IF e.key \in DOMAIN m THEN PutAll(m, e.aliases, m[e.key]) ELSE m,
                          Tail(alias_map))

\* mapping.setdefault(k, v)
SetDefault(m, k, v) == IF k \in DOMAIN m THEN m ELSE Put(m, k, v)

\* range(start, stop, step), step /= 0
RECURSIVE PyRange(_, _, _)
PyRange(start, stop, step) ==
    IF (step > 0 /\ start >= stop) \/ (step < 0 /\ start <= stop) THEN <<>>
    ELSE <<start>> \o PyRange(start + step, stop, step)

\* A range that stops short of its upper end: range(rmin, rmax, step).
RangeValuesExclusive(prange) ==
    PyRange(prange.min, prange.max, IF prange.step = 0 THEN 1 ELSE prange.step)

\* range(rmin, rmax + 1, int(step) or 1)
RangeValues(prange) ==
    PyRange(prange.min, prange.max + 1, IF prange.step = 0 THEN 1 ELSE prange.step)

\* s.format(v=v, v_plus=v_plus) on one predicate string
FormatV(t, v) == FormatTokens(t, [n \in {"v", "v_plus"} |->
                                     IF n = "v" THEN ToString(v) ELSE ToString(v + 1)])

\* The try block of the range loop: the three assignments run in order, and
\* the first exception leaves the later strings (and the failing one) as is.
RangePredicates(p, v) ==
    LET fs == FormatV(p.static, v)
        fd == FormatV(p.dynamic, v)
        ff == FormatV(p.filter, v)
    IN  [static  |-> JoinTokens(IF fs.ok THEN fs.val ELSE p.static),
         dynamic |-> JoinTokens(IF fs.ok /\ fd.ok THEN fd.val ELSE p.dynamic),
         filter  |-> JoinTokens(IF fs.ok /\ fd.ok /\ ff.ok THEN ff.val ELSE p.filter)]

\* A rule instance before its action is chosen: the rule's fields and the
\* policy handed to choose_action.
Instance(topic, static, dynamic, flt, hints, priority, policy) ==
    [topic |-> topic, static |-> static, dynamic |-> dynamic, filter |-> flt,
     hints |-> hints, priority |-> priority, policy |-> policy]

\* The policy dict choose_action reads: its action and its own weights.
PolicyOf(p) == [action |-> p.action, action_probabilities |-> p.action_probabilities]

\* The rules of one topic: one per range value, or one when there is no range.
TopicInstances(p, topic) ==
    IF p.range /= None
    THEN LET vs == RangeValues(p.range[1])
         IN  [i \in 1..Len(vs) |->
                 LET pr == RangePredicates(p, vs[i])
                 IN  Instance(topic, pr.static, pr.dynamic, pr.filter, p.hints,
                              p.priority, PolicyOf(p))]
    ELSE << Instance(topic, JoinTokens(p.static), JoinTokens(p.dynamic),
                     JoinTokens(p.filter), p.hints, p.priority, PolicyOf(p)) >>

\* The value list of one dimension named in expand_on.
DimValues(p, ex, d) ==
    LET vals == IF d \in {"devices", "device_types"}
                THEN (IF p.devices /= <<>> THEN p.devices ELSE ExGet(ex, "device_types"))
                ELSE ExGet(ex, d)
    IN  IF vals = <<>> THEN <<"">> ELSE vals

\* The topic of one combination: format, or the literal template when format
\* raises, then normalization.
ComboTopic(p, c, combo) ==
    LET m0 == ZipMap(EmptyMap, p.expand_on, combo)
        m1 == SetDefault(ApplyAliases(m0, c.alias_map), "dev", "")
        f  == FormatTokens(p.topic_template, m1)
    IN  NormalizeTopic(f.val)

\* The rule instances of one base policy, in the order the code appends them.
PolicyInstances(p, c) ==
    IF p.expand_on = <<>>
    THEN TopicInstances(p, p.topic_template)
    ELSE LET lists == [i \in 1..Len(p.expand_on) |-> DimValues(p, c.expansions, p.expand_on[i])]
             combos == Product(lists)
         IN  Flatten([i \in 1..Len(combos) |->
                 TopicInstances(p, ComboTopic(p, c, combos[i]))])

\* expand_base_policies(cfg) up to the choice of each action.
expand_base_policies(c) ==
    Flatten([i \in 1..Len(c.base_policies) |-> PolicyInstances(c.base_policies[i], c)])

-----------------------------------------------------------------------------
(* generate_user_attribute_rules *)

\* An attribute value is a string prefix \o body, the prefix "", "?" or "#"
\* ("?true" is a capability flag, "#2" a clearance).
AttrString(val) == val.prefix \o val.body

\* aval.startswith('?') and 'true' in aval; the bodies of the
\* configurations here hold 'true' only as the whole body.
IsTrueFlag(val) == val.prefix = "?" /\ val.body = "true"

\* int(s) of a decimal string
ParseInt(s) == CHOOSE n \in -9..99 : ToString(n) = s

\* int(attrs.get('clearance', '#0').replace('#', '') or 0)
ClearanceOf(val) == IF val.body = "" THEN 0 ELSE ParseInt(val.body)

\* str(b).endswith(suffix), b one of the configured values
EndsWith(b, suffix) == \E pre \in {"", "b", "b1", "b2", "x"} : pre \o suffix = b

\* A dict kept as a sequence of [key, ...] entries: the entry of a key, or 0.
IndexOfKey(d, k) == FirstIndex(d, LAMBDA e : e.key = k)

\* A lookup that names a user 'guest' when no record holds the id.
UsernameOrGuest(c, uid) ==
    LET hits == {i \in 1..Len(c.users) : c.users[i].userid = uid}
    IN  IF hits = {} THEN "guest" ELSE c.users[CHOOSE i \in hits : \A j \in hits : j <= i].username

\* uid_to_user[u.get('userid')] = u.get('username'): the last record wins.
UsernameOf(c, uid) ==
    LET hits == {i \in 1..Len(c.users) : c.users[i].userid = uid}
    IN  IF hits = {} THEN "" ELSE c.users[CHOOSE i \in hits : \A j \in hits : j <= i].username

\* user_attrs.setdefault(uid, {})[name] = val: dicts in insertion order, a
\* repeated name keeps its place and takes the later value.
RECURSIVE CollectAttrs(_, _)
CollectAttrs(acc, triples) ==
    IF triples = <<>> THEN acc
    ELSE LET t == Head(triples)
             ui == IndexOfKey(acc, t.uid)
             old == IF ui = 0 THEN <<>> ELSE acc[ui].attrs
             ai == IndexOfKey(old, t.name)
             new == IF ai = 0 THEN Append(old, [key |-> t.name, val |-> t.val])
                    ELSE [old EXCEPT ![ai].val = t.val]
         IN  CollectAttrs(IF ui = 0 THEN Append(acc, [key |-> t.uid, attrs |-> new])
                          ELSE [acc EXCEPT ![ui].attrs = new],
                          Tail(triples))

AttrGet(attrs, name, default) ==
    LET i == IndexOfKey(attrs, name) IN IF i = 0 THEN default ELSE attrs[i].val

\* cfg.get('role_priorities', {}).get(role, 1)
RolePriority(c, role) ==
    LET i == IndexOfKey(c.role_priorities, role)
    IN  IF i = 0 THEN 1 ELSE c.role_priorities[i].val

\* base_priority after the clearance adjustment (lines 215-221)
BasePriority(c, attrs) ==
    RolePriority(c, AttrString(AttrGet(attrs, "role", [prefix |-> "", body |-> ""])))
    + ClearanceOf(AttrGet(attrs, "clearance", [prefix |-> "#", body |-> "0"]))
      * c.clearance_priority_multiplier

\* cfg.get(name, 0) for the named numeric entries of the configuration
CfgNumber(c, name, default) ==
    IF name = "security_restriction_bonus" /\ c.security_restriction_bonus /= None
    THEN c.security_restriction_bonus[1] ELSE default

\* priority_offset of one restriction (lines 234-239): the literal priority,
\* plus the named configuration entry when the restriction names one.
PriorityOffset(c, rdef) ==
    rdef.priority
    + (IF rdef.priority_offset_config /= None
       THEN CfgNumber(c, rdef.priority_offset_config[1], 0) ELSE 0)

UserStatic(username) == "subj.username=='" \o username \o "'"

\* The expansion keys a restriction template uses, in alias_map order.
ExpandKeys(c, fields) ==
    LET hit(e) == e.key \in fields \/ \E i \in 1..Len(e.aliases) : e.aliases[i] \in fields
        sel == SelectSeq(c.alias_map, hit)
    IN  [i \in 1..Len(sel) |-> sel[i].key]

RestrictionDimValues(c, rdef, key) ==
    LET vals == IF key = "floors" /\ rdef.floor /= None THEN <<rdef.floor[1]>>
                ELSE IF key \in {"devices", "device_types"}
                THEN (IF rdef.devices /= <<>> THEN rdef.devices
                      ELSE ExGet(c.expansions, "device_types"))
                ELSE ExGet(c.expansions, key)
    IN  IF vals = <<>> THEN <<"">> ELSE vals

\* The mapping of one combination of a restriction (lines 277-294).
RestrictionMapping(c, keys, combo) ==
    LET m1 == ApplyAliases(ZipMap(EmptyMap, keys, combo), c.alias_map)
        m2 == IF "device_types" \in DOMAIN m1 /\ "dev" \notin DOMAIN m1
              THEN Put(m1, "dev", m1["device_types"]) ELSE m1
    IN  IF "devices" \in DOMAIN m2 /\ "dev" \notin DOMAIN m2
        THEN Put(m2, "dev", m2["devices"]) ELSE m2

\* The rules of one restriction of one user (lines 230-318).
RestrictionInstances(c, rdef, username, base_priority) ==
    LET keys == ExpandKeys(c, TemplateFields(rdef.topic_template))
        lists == [i \in 1..Len(keys) |-> RestrictionDimValues(c, rdef, keys[i])]
        combos == Product(lists)
        one(combo) ==
            LET m == RestrictionMapping(c, keys, combo)
                bval == IF "b" \in DOMAIN m THEN m["b"] ELSE ""
                f == FormatTokens(rdef.topic_template, m)
            IN  IF rdef.building_suffix /= None /\ ~EndsWith(bval, rdef.building_suffix[1])
                THEN <<>>
                ELSE << Instance(NormalizeTopic(f.val), UserStatic(username), "", "",
                                 "subj", base_priority + PriorityOffset(c, rdef),
                                 [action |-> Some(IF rdef.action = None THEN "deny"
                                                  ELSE rdef.action[1]),
                                  action_probabilities |-> <<>>]) >>
    IN  Flatten([i \in 1..Len(combos) |-> one(combos[i])])

\* The legacy rules of role intern (lines 320-348).
InternInstances(c, username, base_priority) ==
    LET bs == LET v == ExGet(c.expansions, "buildings") IN IF v = <<>> THEN <<"">> ELSE v
        deny == [action |-> Some("deny"), action_probabilities |-> <<>>]
        one(b) ==
            IF b = "" THEN <<>>
            ELSE (IF EndsWith(b, "2")
                  THEN << Instance(<<b, SLASH, HASH>>, UserStatic(username), "", "", "subj",
                                   base_priority + CfgNumber(c, "security_restriction_bonus", 5),
                                   deny) >>
                  ELSE <<>>)
                 \o << Instance(<<b, SLASH, "f3", SLASH, HASH>>, UserStatic(username),
                                "", "", "subj", 1, deny) >>
    IN  Flatten([i \in 1..Len(bs) |-> one(bs[i])])

\* [k for k in ex.keys() if k not in ('devices', 'device_types')]
SpatialKeys(ex) == SelectSeq(ExKeys(ex), LAMBDA k : k \notin {"devices", "device_types"})

\* _vals(key)
Vals(ex, key) == LET v == ExGet(ex, key) IN IF v = <<>> THEN <<"">> ELSE v

CapabilityTemplate == <<"{b}", SLASH, "{fl}", SLASH, "{r}", SLASH, "{dev}", SLASH, HASH>>

\* The topic of one capability rule (lines 369-391): format, or on a
\* KeyError the join of the non-empty parts, then normalization.
CapabilityTopic(c, keys, combo, dev) ==
    LET m == Put(ApplyAliases(ZipMap(EmptyMap, keys, combo), c.alias_map), "dev", dev)
        f == FormatTokens(CapabilityTemplate, m)
        get(k) == IF k \in DOMAIN m THEN m[k] ELSE ""
        parts == SelectSeq(<<get("b"), get("fl"), get("r"), dev>>, LAMBDA x : x /= "")
        joined == Canon(Flatten([i \in 1..Len(parts) |->
                      IF i = 1 THEN <<parts[i]>> ELSE <<SLASH, parts[i]>>])
                  \o <<SLASH, HASH>>)
    IN  NormalizeTopic(IF f.ok THEN f.val ELSE joined)

\* cfg.get('device_capability_map', {...}): the built-in table when unset
DeviceMap(c) ==
    IF c.device_capability_map = None
    THEN << [key |-> "video", devs |-> <<"cam">>],
            [key |-> "alarm", devs |-> <<"proximity">>],
            [key |-> "facilities", devs |-> <<"tstat", "thermostat">>] >>
    ELSE c.device_capability_map[1]

\* device_map.get(aname, [])
DevicesOf(c, aname) ==
    LET i == IndexOfKey(DeviceMap(c), aname)
    IN  IF i = 0 THEN <<>> ELSE DeviceMap(c)[i].devs

\* The rules one of the two capability loops emits for one user; static and
\* priority are what distinguish the per-user loop from the generic one.
CapabilityInstances(c, attrs, Static(_), priority) ==
    LET keys == SpatialKeys(c.expansions)
        combos == Product([i \in 1..Len(keys) |-> Vals(c.expansions, keys[i])])
        grant == [action |-> Some("grant"), action_probabilities |-> <<>>]
        forAttr(a) ==
            IF IsTrueFlag(a.val)
            THEN LET devs == DevicesOf(c, a.key)
                 IN  Flatten([d \in 1..Len(devs) |->
                        [j \in 1..Len(combos) |->
                            Instance(CapabilityTopic(c, keys, combos[j], devs[d]),
                                     Static(a.key), "", "", "subj", priority, grant)]])
            ELSE <<>>
    IN  Flatten([i \in 1..Len(attrs) |-> forAttr(attrs[i])])

GenericStatic(aname) == "subj." \o aname \o " ?? false"

\* The priority of every attribute-level generic rule (line 452).
GenericPriority == 5

\* All rules of one user (the body of the loop at line 210).
UserInstances(c, uid, attrs) ==
    LET username == UsernameOf(c, uid)
        base_priority == BasePriority(c, attrs)
        role == AttrString(AttrGet(attrs, "role", [prefix |-> "", body |-> ""]))
        ri == IndexOfKey(c.role_restrictions, role)
        restrictions == IF ri = 0 THEN <<>> ELSE c.role_restrictions[ri].defs
    IN  IF username = "" THEN <<>>
        ELSE (IF restrictions /= <<>>
              THEN Flatten([i \in 1..Len(restrictions) |->
                       RestrictionInstances(c, restrictions[i], username, base_priority)])
              ELSE IF role = "intern" THEN InternInstances(c, username, base_priority)
              ELSE <<>>)
             \o CapabilityInstances(c, attrs, LAMBDA a : UserStatic(username), base_priority)
             \o CapabilityInstances(c, attrs, GenericStatic, GenericPriority)

\* generate_user_attribute_rules(cfg) up to the choice of each action.
generate_user_attribute_rules(c) ==
    LET ua == CollectAttrs(<<>>, c.user_attributes)
    IN  Flatten([i \in 1..Len(ua) |-> UserInstances(c, ua[i].key, ua[i].attrs)])

-----------------------------------------------------------------------------
(* Deduplication (main, lines 560-607) *)

\* A finished rule: an instance with its action.
Rule(inst, action) ==
    [topic |-> inst.topic, static |-> inst.static, dynamic |-> inst.dynamic,
     filter |-> inst.filter, hints |-> inst.hints, action |-> action,
     priority |-> inst.priority]

\* str.lower() on the action names the configurations use
Lower(a) ==
    CASE a = "GRANT" -> "grant"
      [] a = "Deny" -> "deny"
      [] OTHER -> a

\* (r.get('action') or 'deny').lower()
ActionKey(a) == Lower(IF a = "" THEN "deny" ELSE a)

\* The identity key of the deduplication.
IdentityKey(r) == <<r.topic, r.static, r.dynamic, r.priority>>

\* counts[act] = counts.get(act, 0) + 1 on a dict kept in insertion order
CountUp(counts, act) ==
    LET i == IndexOfKey(counts, act)
    IN  IF i = 0 THEN Append(counts, [key |-> act, n |-> 1])
        ELSE [counts EXCEPT ![i].n = @ + 1]

\* An aggregation that keeps rules of different actions apart.
AddToGroupedByAction(g, r) ==
    LET i == FirstIndex(g, LAMBDA e : IdentityKey(e.rep) = IdentityKey(r)
                                      /\ e.rep.action = r.action)
    IN  IF i = 0
        THEN Append(g, [rep |-> r,
                        action_counts |-> <<[key |-> ActionKey(r.action), n |-> 1]>>])
        ELSE [g EXCEPT ![i].action_counts = CountUp(@, ActionKey(r.action))]

\* One pass of the aggregation loop (lines 579-597).
AddToGrouped(g, r) ==
    LET i == FirstIndex(g, LAMBDA e : IdentityKey(e.rep) = IdentityKey(r))
    IN  IF i = 0
        THEN Append(g, [rep |-> r,
                        action_counts |-> <<[key |-> ActionKey(r.action), n |-> 1]>>])
        ELSE [g EXCEPT ![i] =
                 [rep |-> IF r.priority > @.rep.priority THEN r ELSE @.rep,
                  action_counts |-> CountUp(@.action_counts, ActionKey(r.action))]]

RECURSIVE Aggregate(_, _)
Aggregate(g, rs) ==
    IF rs = <<>> THEN g ELSE Aggregate(AddToGrouped(g, Head(rs)), Tail(rs))

\* Every action of the group as a candidate, whatever its count.
AllCandidates(counts) == [i \in 1..Len(counts) |-> counts[i].key]

\* [a for a, c in counts.items() if c == max(counts.values())]
MaxCandidates(counts) ==
    LET mx == CHOOSE m \in {counts[i].n : i \in 1..Len(counts)} :
                  \A i \in 1..Len(counts) : counts[i].n <= m
        top == SelectSeq(counts, LAMBDA e : e.n = mx)
    IN  [i \in 1..Len(top) |-> top[i].key]

\* float(probs.get(a, 0) or 0) with the except branch, on the global table
GlobalWeight(c, a) ==
    LET i == FirstIndex(c.action_probabilities, LAMBDA e : e.k = a)
    IN  IF i = 0 THEN 0 ELSE ToFloat(c.action_probabilities[i])

\* bisect.bisect_right(a, x, lo, hi) with x = d/DrawGrid * total
RECURSIVE Bisect(_, _, _, _, _)
Bisect(cum, d, total, lo, hi) ==
    IF lo >= hi THEN lo
    ELSE LET mid == (lo + hi) \div 2
         IN  IF d * total < cum[mid + 1] * DrawGrid
             THEN Bisect(cum, d, total, lo, mid)
             ELSE Bisect(cum, d, total, mid + 1, hi)

\* _pick_action_weighted(candidates) when the generator returns d/DrawGrid:
\* random.choice when the weights sum to nothing, random.choices otherwise.
pick_action_weighted(c, candidates, d) ==
    LET n == Len(candidates)
        weights == [i \in 1..n |-> GlobalWeight(c, candidates[i])]
        total == SumSeq(weights)
        cum == [i \in 1..n |-> SumSeq(SubSeq(weights, 1, i))]
    IN  IF total <= 0 THEN candidates[((d * n) \div DrawGrid) + 1]
        ELSE candidates[Bisect(cum, d, total, 0, n - 1) + 1]

-----------------------------------------------------------------------------
(* Generalization (main, lines 609-709) *)

\* args.max_policies or cfg.get('max_policies', 1000)
DefaultMaxPolicies == 1000

MaxPolicies(a, c) ==
    IF a.max_policies /= None /\ a.max_policies[1] /= 0 THEN a.max_policies[1]
    ELSE IF c.max_policies = None THEN DefaultMaxPolicies
    ELSE c.max_policies[1]

\* The four patterns of a topic of at least four segments, most specific
\* first, with their specificity (lines 626-643).
Patterns(parts) ==
    LET building == parts[1]
        floor == parts[2]
        last == parts[Len(parts)]
        h == FirstIndex(last, LAMBDA x : x = HASH)
        device_part == IF h > 0 THEN SubSeq(last, 1, h - 1) ELSE last
        suffix == IF h > 0 THEN <<HASH>> ELSE <<>>
        tail == device_part \o suffix
    IN  << [pattern |-> building \o <<SLASH>> \o floor \o <<SLASH, "+", SLASH>> \o tail,
            specificity |-> 3],
           [pattern |-> building \o <<SLASH, "+", SLASH, "+", SLASH>> \o tail,
            specificity |-> 2],
           [pattern |-> <<"+", SLASH, "+", SLASH, "+", SLASH>> \o tail,
            specificity |-> 1],
           [pattern |-> <<HASH>>, specificity |-> 0] >>

PatternKey(topic, r) == <<topic, r.static, r.priority>>

\* A by_pattern that gets a new entry for every pattern of every rule.
AddPatternUnkeyed(bp, key, rep, specificity, action) ==
    Append(bp, [key |-> key, rule |-> rep, specificity |-> specificity, count |-> 1,
                action_counts |-> <<[key |-> ActionKey(action), n |-> 1]>>])

\* One (pattern, specificity) of one rule put into by_pattern (lines 648-696);
\* rep is the rule stored when the key is new or the priority is higher.
AddPattern(bp, key, rep, specificity, action) ==
    LET i == IndexOfKey(bp, key)
    IN  IF i = 0
        THEN Append(bp, [key |-> key, rule |-> rep, specificity |-> specificity,
                         count |-> 1,
                         action_counts |-> <<[key |-> ActionKey(action), n |-> 1]>>])
        ELSE [bp EXCEPT ![i] =
                 [@ EXCEPT !.count = @ + 1,
                           !.action_counts = CountUp(@, Lower(action)),
                           !.rule = IF rep.priority > @.priority THEN rep ELSE @]]

RECURSIVE AddPatterns(_, _, _)
AddPatterns(bp, pats, r) ==
    IF pats = <<>> THEN bp
    ELSE AddPatterns(AddPattern(bp, PatternKey(Head(pats).pattern, r),
                                [r EXCEPT !.topic = Head(pats).pattern],
                                Head(pats).specificity, r.action),
                     Tail(pats), r)

\* The specificity of a topic kept as it is (line 686).
ShortSpecificity == 4

\* One pass of the loop over uniq (lines 616-696).
AddRulePatterns(bp, r) ==
    LET parts == SplitOn(r.topic, SLASH)
    IN  IF Len(parts) >= 4 THEN AddPatterns(bp, Patterns(parts), r)
        ELSE AddPattern(bp, PatternKey(r.topic, r), r, ShortSpecificity, r.action)

RECURSIVE BuildByPattern(_, _)
BuildByPattern(bp, rs) ==
    IF rs = <<>> THEN bp ELSE BuildByPattern(AddRulePatterns(bp, Head(rs)), Tail(rs))

-----------------------------------------------------------------------------
(* Grouping and the distribution strategies (main, lines 711-821) *)

\* a or b or '#'
OrElse(a, b) == IF a /= "" THEN a ELSE IF b /= "" THEN b ELSE "#"

\* str(grp_key) of one rule (lines 714-728)
GroupKey(r, grouping_key) ==
    IF grouping_key = "hints" THEN OrElse(r.hints, r.static)
    ELSE IF grouping_key = "device"
    THEN LET parts == SplitOn(r.topic, SLASH)
         IN  JoinTokens(IF Len(parts) > 3 THEN parts[4] ELSE parts[Len(parts)])
    ELSE OrElse(r.static, r.hints)

\* The sort key (-priority, -specificity, -count) of an item.
RankKey(x) == <<-x.rule.priority, -x.specificity, -x.count>>

SortItems(items) == StableSort(items, [i \in 1..Len(items) |-> RankKey(items[i])])

\* groups.setdefault(str(grp_key), []).append(item), then each group sorted
RECURSIVE GroupItems(_, _, _)
GroupItems(gs, items, grouping_key) ==
    IF items = <<>> THEN gs
    ELSE LET k == GroupKey(Head(items).rule, grouping_key)
             i == IndexOfKey(gs, k)
         IN  GroupItems(IF i = 0 THEN Append(gs, [key |-> k, items |-> <<Head(items)>>])
                        ELSE [gs EXCEPT ![i].items = Append(@, Head(items))],
                        Tail(items), grouping_key)

Groups(bp, grouping_key) ==
    LET gs == GroupItems(<<>>, bp, grouping_key)
    IN  [i \in 1..Len(gs) |-> [key |-> gs[i].key, items |-> SortItems(gs[i].items)]]

\* The while loop of round_robin and of priority_buckets: queue holds group
\* indices, buckets[g] the items group g still has.
RECURSIVE RoundRobin(_, _, _, _)
RoundRobin(queue, buckets, selected, mp) ==
    IF queue = <<>> \/ Len(selected) >= mp THEN selected
    ELSE LET g == Head(queue)
             bucket == buckets[g]
         IN  IF bucket = <<>> THEN RoundRobin(Tail(queue), buckets, selected, mp)
             ELSE RoundRobin(IF Tail(bucket) /= <<>> THEN Append(Tail(queue), g)
                             ELSE Tail(queue),
                             [buckets EXCEPT ![g] = Tail(bucket)],
                             Append(selected, Head(bucket).rule), mp)

PrioritySum(items) == SumSeq([i \in 1..Len(items) |-> items[i].rule.priority])

\* The groups in the order of their priority sums, each emptied before the
\* next one is visited.
SelectGroupByGroup(gs, mp) ==
    LET idx == [i \in 1..Len(gs) |-> i]
        order == StableSort(idx, [i \in 1..Len(gs) |-> <<-PrioritySum(gs[i].items)>>])
        all_items == Flatten([i \in 1..Len(gs) |-> gs[order[i]].items])
        n == Min2(Len(all_items), Max2(0, mp))
    IN  [j \in 1..n |-> all_items[j].rule]

\* distribution == 'round_robin' (lines 740-752)
SelectRoundRobin(gs, mp) ==
    LET idx == [i \in 1..Len(gs) |-> i]
        order == StableSort(idx, [i \in 1..Len(gs) |-> <<-PrioritySum(gs[i].items)>>])
    IN  RoundRobin(order, [i \in 1..Len(gs) |-> gs[i].items], <<>>, mp)

\* int(round(num / den)), Python rounding halves to the even neighbour
RoundHalfEven(num, den) ==
    LET q == num \div den
        r == num % den
    IN  IF 2 * r < den THEN q
        ELSE IF 2 * r > den THEN q + 1
        ELSE IF q % 2 = 0 THEN q ELSE q + 1

CountSum(items) == SumSeq([i \in 1..Len(items) |-> items[i].count])

\* A share without the minimum of one slot.
ShareWithoutMinimum(gs, i, mp) ==
    LET counted == SumSeq([j \in 1..Len(gs) |-> CountSum(gs[j].items)])
        total_count == IF counted <= 0 THEN SumSeq([j \in 1..Len(gs) |-> Len(gs[j].items)])
                       ELSE counted
    IN  IF total_count > 0
        THEN RoundHalfEven(CountSum(gs[i].items) * mp, total_count)
        ELSE 0

\* alloc[k] (lines 756-766)
Share(gs, i, mp) ==
    LET counted == SumSeq([j \in 1..Len(gs) |-> CountSum(gs[j].items)])
        total_count == IF counted <= 0 THEN SumSeq([j \in 1..Len(gs) |-> Len(gs[j].items)])
                       ELSE counted
    IN  IF total_count > 0
        THEN Max2(1, RoundHalfEven(CountSum(gs[i].items) * mp, total_count))
        ELSE 0

\* The per-group loop of proportional (lines 769-775): st.selected grows and
\* st.left collects what each bucket keeps.
RECURSIVE TakeShares(_, _, _, _)
TakeShares(gs, i, st, mp) ==
    IF i > Len(gs) THEN st
    ELSE LET bucket == gs[i].items
             take == Min2(Len(bucket), Share(gs, i, mp))
             n == Min2(take, Max2(0, mp - Len(st.selected)))
         IN  TakeShares(gs, i + 1,
                 [selected |-> st.selected
                                \o [j \in 1..n |-> bucket[j].rule],
                  left |-> st.left \o SubSeq(bucket, n + 1, Len(bucket))],
                 mp)

\* distribution == 'proportional' (lines 754-785)
SelectProportional(gs, mp) ==
    LET st == TakeShares(gs, 1, [selected |-> <<>>, left |-> <<>>], mp)
        remaining == SortItems(st.left)
        n == Min2(Len(remaining), Max2(0, mp - Len(st.selected)))
    IN  st.selected \o [j \in 1..n |-> remaining[j].rule]

\* The loop over the priorities of priority_buckets (lines 796-810).
RECURSIVE DrainBuckets(_, _, _, _)
DrainBuckets(prios, gs, selected, mp) ==
    IF prios = <<>> THEN selected
    ELSE LET p == Head(prios)
             sub == [i \in 1..Len(gs) |->
                        SelectSeq(gs[i].items, LAMBDA x : x.rule.priority = p)]
             q == SelectSeq([i \in 1..Len(gs) |-> i], LAMBDA i : sub[i] /= <<>>)
             sel == RoundRobin(q, sub, selected, mp)
         IN  IF Len(sel) >= mp THEN sel ELSE DrainBuckets(Tail(prios), gs, sel, mp)

\* sorted(set of numbers, reverse=True)
RECURSIVE SortedDesc(_)
SortedDesc(S) ==
    IF S = {} THEN <<>>
    ELSE LET m == CHOOSE x \in S : \A y \in S : y <= x
         IN  <<m>> \o SortedDesc(S \ {m})

\* One round-robin over the groups with the items of every priority at once.
SelectAcrossPriorities(gs, mp) ==
    RoundRobin([i \in 1..Len(gs) |-> i], [i \in 1..Len(gs) |-> gs[i].items], <<>>, mp)

\* distribution == 'priority_buckets' (lines 787-810)
SelectPriorityBuckets(gs, mp) ==
    LET prios == UNION {{gs[i].items[j].rule.priority : j \in 1..Len(gs[i].items)} :
                           i \in 1..Len(gs)}
    IN  DrainBuckets(SortedDesc(prios), gs, <<>>, mp)

\* The first items of the groups in the order of the groups, never sorted
\* across the groups.
SelectGroupwise(gs, mp) ==
    LET all_items == Flatten([i \in 1..Len(gs) |-> gs[i].items])
        n == Min2(Len(all_items), Max2(0, mp))
    IN  [j \in 1..n |-> all_items[j].rule]

\* any other distribution (lines 812-819)
SelectDefault(gs, mp) ==
    LET all_items == SortItems(Flatten([i \in 1..Len(gs) |-> gs[i].items]))
        n == Min2(Len(all_items), Max2(0, mp))
    IN  [j \in 1..n |-> all_items[j].rule]

\* selected, for the configured grouping key and distribution strategy
Select(bp, grouping_key, distribution, mp) ==
    LET gs == Groups(bp, grouping_key)
    IN  CASE distribution = "round_robin" -> SelectRoundRobin(gs, mp)
          [] distribution = "proportional" -> SelectProportional(gs, mp)
          [] distribution = "priority_buckets" -> SelectPriorityBuckets(gs, mp)
          [] OTHER -> SelectDefault(gs, mp)

-----------------------------------------------------------------------------
(* Backfill (main, lines 823-853) *)

FullKey(r) == <<r.topic, r.static, r.dynamic, r.priority, r.action>>

\* candidates: every (rep, action) of grouped whose tuple is not in the output
BackfillCandidates(g, existing) ==
    LET ofGroup(e) ==
            LET keep == SelectSeq(e.action_counts,
                            LAMBDA a : FullKey([e.rep EXCEPT !.action = a.key]) \notin existing)
            IN  [i \in 1..Len(keep) |->
                    [cnt |-> keep[i].n, cand |-> [e.rep EXCEPT !.action = keep[i].key]]]
        cands == Flatten([i \in 1..Len(g) |-> ofGroup(g[i])])
    IN  StableSort(cands, [i \in 1..Len(cands) |-> <<-cands[i].cnt, -cands[i].cand.priority>>])

\* An appending loop that does not look at the budget.
RECURSIVE RefillPastBudget(_, _, _)
RefillPastBudget(u, cands, mp) ==
    IF cands = <<>> THEN u
    ELSE LET cand == Head(cands).cand
         IN  IF \E i \in 1..Len(u) : FullKey(u[i]) = FullKey(cand)
             THEN RefillPastBudget(u, Tail(cands), mp)
             ELSE RefillPastBudget(Append(u, cand), Tail(cands), mp)

\* The appending loop (lines 846-853).
RECURSIVE Refill(_, _, _)
Refill(u, cands, mp) ==
    IF cands = <<>> \/ Len(u) >= mp THEN u
    ELSE LET cand == Head(cands).cand
         IN  IF \E i \in 1..Len(u) : FullKey(u[i]) = FullKey(cand)
             THEN Refill(u, Tail(cands), mp)
             ELSE Refill(Append(u, cand), Tail(cands), mp)

\* A program without the backfill pass.
NoBackfill(u, g, mp) == u

\* The list handed to write_sql, from uniq after the generalization step.
Backfill(u, g, mp) ==
    IF mp > 0 /\ Len(u) < mp
    THEN Refill(u, BackfillCandidates(g, {FullKey(u[i]) : i \in 1..Len(u)}), mp)
    ELSE u

-----------------------------------------------------------------------------
(* The configurations the model runs on *)

\* A base policy with the defaults of every optional key.
BasePolicy(template, expand_on, static, dynamic, hints, priority, action) ==
    [topic_template |-> template, expand_on |-> expand_on, range |-> None,
     static |-> static, dynamic |-> dynamic, filter |-> <<>>, hints |-> hints,
     priority |-> priority, action |-> action, action_probabilities |-> <<>>,
     devices |-> <<>>]

Weight(k, w) == [k |-> k, num |-> TRUE, w |-> w]
NonNumeric(k) == [k |-> k, num |-> FALSE, w |-> 0]

Spatial == <<"buildings", "floors", "rooms">>

CamTemplate == <<"{b}", SLASH, "{fl}", SLASH, "{r}", SLASH, "cam", SLASH, HASH>>

\* Largest value of the numeric range of the ranged template.
MaxRange == 2

\* Two equal rules per topic: a range whose value no predicate uses.
CamGrant ==
    [BasePolicy(CamTemplate, Spatial, <<"s1">>, <<>>, "subj", 2, Some("grant"))
        EXCEPT !.range = Some([min |-> 0, max |-> 1, step |-> 1])]
CamDeny == BasePolicy(CamTemplate, Spatial, <<"s1">>, <<>>, "subj", 2, Some("deny"))
\* Rules that differ in their dynamic predicate alone.
Alerts ==
    [BasePolicy(<<"alerts", SLASH, HASH>>, <<>>, <<>>, <<"x>", "{v}">>, "ctx", 1, Some("deny"))
        EXCEPT !.range = Some([min |-> 0, max |-> MaxRange, step |-> 1])]
\* A template with weights of its own and no declared action.
Tstat ==
    [BasePolicy(<<"{b}", SLASH, "{fl}", SLASH, "{r}", SLASH, "tstat">>, Spatial,
                <<>>, <<>>, "obj", 3, None)
        EXCEPT !.action_probabilities = <<Weight("filter", 1), Weight("grant", 1)>>]

\* A literal template whose static predicate takes the range value.
Lvl ==
    [BasePolicy(<<"lvl">>, <<>>, <<"lvl==", "{v}">>, <<>>, "payload", 1, Some("filter"))
        EXCEPT !.range = Some([min |-> 0, max |-> MaxRange, step |-> 1])]

\* The literal topic '#' under the static predicate and the priority of the
\* camera templates.
CatchAll == BasePolicy(<<HASH>>, <<>>, <<"s1">>, <<>>, "subj", 2, Some("deny"))

\* One short topic per room under one static predicate.
Doors == BasePolicy(<<"door", SLASH, "{r}">>, <<"rooms">>, <<"s2">>, <<>>, "obj", 1,
                    Some("grant"))

\* A thermostat template whose floor is the single-level wildcard, and the
\* fully spatial one under the same static predicate and priority.
WildFloor ==
    BasePolicy(<<"{b}", SLASH, "+", SLASH, "r1", SLASH, "tstat">>, <<"buildings">>,
               <<"s1">>, <<>>, "obj", 2, Some("grant"))
TstatDeny ==
    BasePolicy(<<"{b}", SLASH, "{fl}", SLASH, "{r}", SLASH, "tstat">>, Spatial,
               <<"s1">>, <<>>, "obj", 2, Some("deny"))

PipelineTemplates == <<CamGrant, CamDeny, Alerts, Tstat, Lvl>>

\* The camera templates with weights of their own that fix the action, so
\* that a table of global weights leaves their raw actions alone.
CamGrantOwn == [CamGrant EXCEPT !.action_probabilities = <<Weight("grant", 1)>>]
CamDenyOwn == [CamDeny EXCEPT !.action_probabilities = <<Weight("deny", 1)>>]

\* Longest list of base policies of a configuration.
MaxBasePolicies == 2

\* The subsequences of s of at most n elements.
RECURSIVE SubSeqsUpTo(_, _)
SubSeqsUpTo(s, n) ==
    IF s = <<>> \/ n = 0 THEN {<<>>}
    ELSE SubSeqsUpTo(Tail(s), n)
         \cup {<<Head(s)>> \o q : q \in SubSeqsUpTo(Tail(s), n - 1)}

Dim(k, vals) == [key |-> k, vals |-> vals]

TwoBuildings == <<Dim("buildings", <<"b1", "b2">>), Dim("floors", <<"f1">>),
                  Dim("rooms", <<"r1">>)>>
TwoRooms == <<Dim("buildings", <<"b1">>), Dim("floors", <<"f1">>),
              Dim("rooms", <<"r1", "r2">>)>>

\* One building, floors and rooms not configured at all.
OneBuilding == <<Dim("buildings", <<"b1">>)>>
\* One building, floors and rooms configured as empty lists.
NoFloorsRooms == <<Dim("buildings", <<"b1">>), Dim("floors", <<>>), Dim("rooms", <<>>)>>

StandardAliases == << [key |-> "buildings", aliases |-> <<"b">>],
                      [key |-> "floors", aliases |-> <<"fl">>],
                      [key |-> "rooms", aliases |-> <<"r">>],
                      [key |-> "device_types", aliases |-> <<"dev">>] >>

Attr(uid, name, prefix, body) ==
    [uid |-> uid, name |-> name, val |-> [prefix |-> prefix, body |-> body]]

\* A configuration with the defaults of every key the generator reads.
Config(bp, ex, users, attrs, dmap, probs, seed) ==
    [base_policies |-> bp, expansions |-> ex, alias_map |-> StandardAliases,
     users |-> users, user_attributes |-> attrs,
     role_priorities |-> <<>>, clearance_priority_multiplier |-> 2,
     role_restrictions |-> <<>>, security_restriction_bonus |-> None,
     device_capability_map |-> dmap, action_probabilities |-> probs,
     seed |-> seed, max_policies |-> None,
     generalization |-> [grouping_key |-> None, distribution_strategy |-> None]]

Alice == <<[userid |-> 1, username |-> "alice"]>>
AttrSets == { <<Attr(1, "video", "?", "true")>>,
              <<Attr(1, "clearance", "#", "1"), Attr(1, "video", "?", "true"),
                Attr(1, "alarm", "?", "false")>> }
\* Attribute records of user id 2, which no user record holds, before and
\* after those of alice.
OrphanAttrSets ==
    { <<Attr(1, "video", "?", "true"), Attr(2, "alarm", "?", "true"),
        Attr(2, "role", "", "intern")>>,
      <<Attr(2, "role", "", "intern"), Attr(2, "alarm", "?", "true"),
        Attr(1, "clearance", "#", "1"), Attr(1, "video", "?", "true")>>,
      <<Attr(2, "video", "?", "true")>> }
\* A restriction on the building's topics: its action, its literal priority
\* and the configuration entry it names.
Restriction(action, priority, offset_config) ==
    [topic_template |-> <<"{b}", SLASH, HASH>>, action |-> action, priority |-> priority,
     priority_offset_config |-> offset_config, floor |-> None, devices |-> <<>>,
     building_suffix |-> None]

\* Restrictions of role intern: a literal priority alone, a named entry
\* alone, and both.
InternRestrictions ==
    <<[key |-> "intern",
       defs |-> <<Restriction(Some("deny"), 4, None),
                  Restriction(None, 0, Some("security_restriction_bonus")),
                  Restriction(Some("filter"), 4, Some("security_restriction_bonus"))>>]>>

InternAttrSets == { <<Attr(1, "role", "", "intern")>>,
                    <<Attr(1, "clearance", "#", "1"), Attr(1, "role", "", "intern")>> }

\* Configurations whose rules are those of the restrictions of alice.
RestrictionConfigs ==
    {[Config(<<>>, TwoRooms, Alice, attrs, None, <<>>, None)
         EXCEPT !.role_restrictions = InternRestrictions,
                !.role_priorities = rp,
                !.security_restriction_bonus = bonus] :
        attrs \in InternAttrSets,
        rp \in {<<>>, <<[key |-> "intern", val |-> 3]>>},
        bonus \in {None, Some(5)}}

\* Configurations whose rules all derive from the attributes of alice, an
\* intern with the video capability, under global tables without and with a
\* positive weight.
UserProbTables == { <<Weight("grant", 0), NonNumeric("deny")>>,
                    <<Weight("filter", 1), Weight("grant", 0)>>,
                    <<Weight("deny", 3), Weight("grant", 1)>> }
UserProbConfigs ==
    {[Config(<<>>, TwoRooms, Alice,
             <<Attr(1, "role", "", "intern"), Attr(1, "video", "?", "true")>>,
             None, probs, Some(1))
         EXCEPT !.role_restrictions = rr] :
        probs \in UserProbTables, rr \in {<<>>, InternRestrictions}}

DeviceMaps == { None,
                Some(<<[key |-> "video", devs |-> <<"cam">>]>>),
                Some(<<[key |-> "video", devs |-> <<"cam", "tstat">>]>>) }

GlobalProbs == { <<Weight("grant", 1), Weight("deny", 1)>>,
                 <<Weight("filter", 3), NonNumeric("deny")>> }
\* The camera templates at a lower priority, two raw rules per topic each: a
\* tie of two against two on every topic.
LoGrant == [CamGrant EXCEPT !.priority = 1]
LoDeny == [CamGrant EXCEPT !.priority = 1, !.action = Some("deny")]

\* Global weights that favour the action in the minority of a group.
DenyHeavy == <<Weight("deny", 3), Weight("grant", 1)>>

\* The seeds of the configuration and of the command line, as pairs.
Seeds == {<<None, None>>, <<Some(1), None>>, <<Some(1), Some(2)>>}

Configs ==
    {Config(bp, ex, <<>>, <<>>, None, <<>>, seed) :
        bp \in SubSeqsUpTo(PipelineTemplates, MaxBasePolicies) \ {<<>>},
        ex \in {TwoBuildings, TwoRooms}, seed \in {None, Some(1)}}
    \cup
    {Config(<<PipelineTemplates[i]>>, TwoRooms, <<>>, <<>>, None, probs, seed) :
        i \in 1..Len(PipelineTemplates), probs \in GlobalProbs, seed \in {None, Some(1)}}
    \cup
    {Config(<<CamDeny>>, ex, Alice, attrs, dmap, <<>>, None) :
        ex \in {TwoRooms, OneBuilding, NoFloorsRooms}, attrs \in AttrSets,
        dmap \in DeviceMaps}
    \cup
    {Config(<<CamGrantOwn, CamDenyOwn>>, TwoRooms, <<>>, <<>>, None, DenyHeavy, seed) :
        seed \in {None, Some(1)}}
    \cup
    {Config(<<CamGrant, CamDeny, LoGrant, LoDeny>>, TwoRooms, <<>>, <<>>, None, <<>>, None)}
    \cup
    {Config(<<CamDeny>>, TwoRooms, Alice, attrs, None, <<>>, None) :
        attrs \in OrphanAttrSets}
    \cup
    {Config(bp, TwoRooms, <<>>, <<>>, None, <<>>, None) :
        bp \in {<<CatchAll, CamDeny>>, <<CamDeny, CatchAll>>, <<Alerts, Doors>>,
                 <<Doors, Alerts>>, <<WildFloor, TstatDeny>>}}
    \cup RestrictionConfigs
    \cup UserProbConfigs

\* Largest budget a configuration or the command line names.
MaxBudget == 2

CfgBudgets == {None} \cup {Some(n) : n \in 0..MaxBudget}
ArgBudgets == {None, Some(0), Some(MaxBudget + 1)}
\* An unset grouping key is 'static', an unset strategy 'proportional'.
GroupingKeys == {None, Some("hints"), Some("device")}
Distributions == {None, Some("round_robin"), Some("priority_buckets"), Some("default"),
                  Some("top")}

-----------------------------------------------------------------------------
(* main *)

\* The traffic simulators while the policy generator runs: not started.
NotStarted == [program |-> "none", pc |-> "none", next |-> 0]

\* gen_cfg.get('grouping_key', 'static'), gen_cfg.get('distribution_strategy', 'proportional')
GroupingKeyOf(c) ==
    IF c.generalization.grouping_key = None THEN "static"
    ELSE c.generalization.grouping_key[1]
DistributionOf(c) ==
    IF c.generalization.distribution_strategy = None THEN "proportional"
    ELSE c.generalization.distribution_strategy[1]

\* args.seed if args.seed is not None else cfg.get('seed')
EffectiveSeed(a, c) == IF a.seed /= None THEN a.seed ELSE c.seed

Init ==
    /\ cfg \in Configs
    /\ \E sd \in Seeds : /\ sd[1] = cfg.seed
                         /\ args = [max_policies |-> None, seed |-> sd[2]]
    /\ pc = "start"
    /\ rng = [seeded |-> FALSE, state |-> 0]
    /\ todo = <<>>
    /\ rules = <<>>
    /\ grouped = <<>>
    /\ gi = 0
    /\ uniq = <<>>
    /\ n_uniq = 0
    /\ by_pattern = <<>>
    /\ generalized = FALSE
    /\ out = <<>>
    /\ run = 1
    /\ first_out = <<>>
    /\ threads = <<>>
    /\ sim = NotStarted

\* Lines 547-556: the generator is seeded when a seed is given, and
\* expand_base_policies starts.
Seed ==
    /\ UNCHANGED simvars
    /\ pc = "start"
    /\ rng' = IF EffectiveSeed(args, cfg) /= None
              THEN SeededRng(EffectiveSeed(args, cfg)[1]) ELSE rng
    /\ todo' = expand_base_policies(cfg)
    /\ pc' = "expand"
    /\ UNCHANGED <<cfg, args, rules, grouped, gi, uniq, n_uniq, by_pattern,
                 generalized, out, run, first_out>>

\* One rules.append of either generator: choose_action, then the append.
ChooseStep ==
    /\ UNCHANGED simvars
    /\ pc \in {"expand", "derive"}
    /\ todo /= <<>>
    /\ LET inst == Head(todo)
           draws == ChooseDraws(inst.policy, cfg)
       IN  \E d \in (IF draws THEN RandomDraws(rng) ELSE {0}) :
              /\ rules' = Append(rules, Rule(inst, choose_action(inst.policy, cfg, d)))
              /\ rng' = IF draws THEN RngStep(rng) ELSE rng
    /\ todo' = Tail(todo)
    /\ UNCHANGED <<cfg, args, pc, grouped, gi, uniq, n_uniq, by_pattern, generalized,
                 out, run, first_out>>

\* Line 558: generate_user_attribute_rules starts.
Derive ==
    /\ UNCHANGED simvars
    /\ pc = "expand"
    /\ todo = <<>>
    /\ todo' = generate_user_attribute_rules(cfg)
    /\ pc' = "derive"
    /\ UNCHANGED <<cfg, args, rng, rules, grouped, gi, uniq, n_uniq, by_pattern,
                 generalized, out, run, first_out>>

\* Lines 578-597: the rules are aggregated by identity key.
AggregateRules ==
    /\ UNCHANGED simvars
    /\ pc = "derive"
    /\ todo = <<>>
    /\ grouped' = Aggregate(<<>>, rules)
    /\ gi' = 1
    /\ pc' = "finalize"
    /\ UNCHANGED <<cfg, args, rng, todo, rules, uniq, n_uniq, by_pattern,
                 generalized, out, run, first_out>>

\* Lines 601-607, one group: its action is resolved and its rep joins uniq.
\* rep is the object held by grouped, so the action shows there too.
FinalizeStep ==
    /\ UNCHANGED simvars
    /\ pc = "finalize"
    /\ gi <= Len(grouped)
    /\ \E d \in RandomDraws(rng) :
          LET a == pick_action_weighted(cfg, MaxCandidates(grouped[gi].action_counts), d)
          IN  /\ grouped' = [grouped EXCEPT ![gi].rep.action = a]
              /\ uniq' = Append(uniq, [grouped[gi].rep EXCEPT !.action = a])
    /\ rng' = RngStep(rng)
    /\ gi' = gi + 1
    /\ UNCHANGED <<cfg, args, pc, todo, rules, n_uniq, by_pattern, generalized, out,
                 run, first_out>>

\* Lines 610-696: the budget is read (the command line's and the
\* configuration's values are fixed here, where main first reads them) and,
\* when uniq exceeds it, by_pattern is built.
Limit ==
    /\ UNCHANGED simvars
    /\ pc = "finalize"
    /\ gi > Len(grouped)
    /\ \E a \in ArgBudgets, b \in CfgBudgets :
          /\ run = 2 => (a = args.max_policies /\ b = cfg.max_policies)
          /\ args' = [args EXCEPT !.max_policies = a]
          /\ cfg' = [cfg EXCEPT !.max_policies = b]
    /\ n_uniq' = Len(uniq)
    /\ LET mp == MaxPolicies(args', cfg')
       IN  IF mp > 0 /\ Len(uniq) > mp
           THEN /\ by_pattern' = BuildByPattern(<<>>, uniq)
                /\ generalized' = TRUE
                /\ gi' = 1
                /\ pc' = "resolve"
           ELSE /\ pc' = "backfill"
                /\ UNCHANGED <<by_pattern, generalized, gi>>
    /\ UNCHANGED <<rng, todo, rules, grouped, uniq, out, run, first_out>>

\* Lines 704-709, one entry of by_pattern: its action is resolved.
ResolveStep ==
    /\ UNCHANGED simvars
    /\ pc = "resolve"
    /\ gi <= Len(by_pattern)
    /\ \E d \in RandomDraws(rng) :
          by_pattern' = [by_pattern EXCEPT ![gi].rule.action =
              pick_action_weighted(cfg, MaxCandidates(by_pattern[gi].action_counts), d)]
    /\ rng' = RngStep(rng)
    /\ gi' = gi + 1
    /\ UNCHANGED <<cfg, args, pc, todo, rules, grouped, uniq, n_uniq, generalized,
                 out, run, first_out>>

\* Lines 699-701 and 711-821: the generalization settings are read (fixed
\* here, where they are first used) and uniq becomes the selected rules.
SelectRules ==
    /\ UNCHANGED simvars
    /\ pc = "resolve"
    /\ gi > Len(by_pattern)
    /\ \E gk \in GroupingKeys, ds \in Distributions :
          /\ run = 2 => (gk = cfg.generalization.grouping_key
                         /\ ds = cfg.generalization.distribution_strategy)
          /\ cfg' = [cfg EXCEPT !.generalization =
                         [grouping_key |-> gk, distribution_strategy |-> ds]]
    /\ uniq' = Select(by_pattern, GroupingKeyOf(cfg'), DistributionOf(cfg'),
                      MaxPolicies(args, cfg))
    /\ pc' = "backfill"
    /\ UNCHANGED <<args, rng, todo, rules, grouped, gi, n_uniq, by_pattern,
                 generalized, out, run, first_out>>

\* Lines 825-855: backfill, and the list is handed to write_sql.
BackfillStep ==
    /\ UNCHANGED simvars
    /\ pc = "backfill"
    /\ out' = Backfill(uniq, grouped, MaxPolicies(args, cfg))
    /\ pc' = "done"
    /\ UNCHANGED <<cfg, args, rng, todo, rules, grouped, gi, uniq, n_uniq,
                 by_pattern, generalized, run, first_out>>

Next ==
    \/ Seed
    \/ ChooseStep
    \/ Derive
    \/ AggregateRules
    \/ FinalizeStep
    \/ Limit
    \/ ResolveStep
    \/ SelectRules
    \/ BackfillStep

Spec == Init /\ [][Next]_vars

-----------------------------------------------------------------------------
(* Two runs of the program over one configuration and one command line *)

\* The program is started again: a new process, so a generator that runs on
\* the entropy of the system until it is seeded, and the same inputs.
Rerun ==
    /\ UNCHANGED simvars
    /\ pc = "done"
    /\ run = 1
    /\ run' = 2
    /\ first_out' = out
    /\ pc' = "start"
    /\ rng' = [seeded |-> FALSE, state |-> 0]
    /\ todo' = <<>>
    /\ rules' = <<>>
    /\ grouped' = <<>>
    /\ gi' = 0
    /\ uniq' = <<>>
    /\ n_uniq' = 0
    /\ by_pattern' = <<>>
    /\ generalized' = FALSE
    /\ out' = <<>>
    /\ UNCHANGED <<cfg, args>>

InitTwoRuns == Init /\ EffectiveSeed(args, cfg) /= None

NextTwoRuns == Next \/ Rerun

SpecTwoRuns == InitTwoRuns /\ [][NextTwoRuns]_vars

-----------------------------------------------------------------------------
(* The program on configurations that vary the action weights *)

\* Weight tables: empty, without a positive weight, with zero, negative and
\* non-numeric weights beside positive ones, with a key that is no action of
\* the rule schema, and with equal and unequal positive weights.
WeightTables ==
    { <<>>,
      <<Weight("grant", 0), Weight("deny", -1)>>,
      <<NonNumeric("grant")>>,
      <<Weight("filter", 0), Weight("grant", 1), NonNumeric("deny"), Weight("audit", 1)>>,
      <<Weight("grant", 1), Weight("deny", 1)>>,
      <<Weight("deny", 1), Weight("filter", 2), Weight("grant", 1)>> }

GlobalTables ==
    { <<>>, <<Weight("grant", 0), Weight("deny", -1)>>,
      <<Weight("filter", 1), Weight("deny", 1)>> }

\* The camera template with a weight table of its own and a declared action
\* or none.
WeightedTemplate(table, action) ==
    [CamDeny EXCEPT !.action_probabilities = table, !.action = action]

ChooseConfigs ==
    {Config(<<WeightedTemplate(own, action)>>, TwoRooms, <<>>, <<>>, None, global, Some(seed)) :
        own \in WeightTables, action \in {None, Some("grant")},
        global \in GlobalTables, seed \in 0..(DrawGrid - 1)}

InitChoose ==
    /\ cfg \in ChooseConfigs
    /\ args = [max_policies |-> None, seed |-> None]
    /\ pc = "start"
    /\ rng = [seeded |-> FALSE, state |-> 0]
    /\ todo = <<>>
    /\ rules = <<>>
    /\ grouped = <<>>
    /\ gi = 0
    /\ uniq = <<>>
    /\ n_uniq = 0
    /\ by_pattern = <<>>
    /\ generalized = FALSE
    /\ out = <<>>
    /\ run = 1
    /\ first_out = <<>>
    /\ threads = <<>>
    /\ sim = NotStarted

SpecChoose == InitChoose /\ [][Next]_vars

-----------------------------------------------------------------------------
(* The traffic simulators: simulator.py and message_simulator.py *)

\* Largest number of payload combinations of a schema.
MaxCombos == 2

\* The publishers in the order of the list pubs, and the subscriber.
PublisherNames == <<"pub1", "pub2">>
SubscriberName == "sub1"
ThreadNames == {PublisherNames[i] : i \in 1..Len(PublisherNames)} \cup {SubscriberName}

\* A thread after __init__ and start(): _running is set, the client is not
\* connected; the Subscriber of message_simulator.py has opened its CSV file.
\* combos is len(combos) of the publisher's schema.  at_stop and after_stop
\* record where run() was when stop() was called and the messages published
\* since.
Thread(kind, combos, csv_open) ==
    [kind |-> kind, running |-> TRUE, pc |-> "start", connected |-> FALSE,
     loop |-> FALSE, csv_open |-> csv_open, combos |-> combos, idx |-> 0,
     at_stop |-> [pc |-> "none", idx |-> 0], after_stop |-> 0]

\* The threads main() starts: one Publisher per topic, and one Subscriber
\* with --with-subscriber.
Started(program, combos, with_subscriber) ==
    [w \in {PublisherNames[i] : i \in 1..Len(PublisherNames)}
             \cup (IF with_subscriber THEN {SubscriberName} ELSE {}) |->
        IF w = SubscriberName
        THEN Thread("Subscriber", 0, program = "message_simulator")
        ELSE Thread("Publisher",
                    combos[CHOOSE i \in 1..Len(PublisherNames) : PublisherNames[i] = w],
                    FALSE)]

\* The order of the stop() calls of main(): pubs, then the subscribers.
StopOrder(ts) ==
    PublisherNames \o (IF SubscriberName \in DOMAIN ts THEN <<SubscriberName>> ELSE <<>>)

\* run(), lines 63-64 of either file: connect and loop_start.
Start(w) ==
    /\ w \in DOMAIN threads
    /\ threads[w].pc = "start"
    /\ threads' = [threads EXCEPT ![w].connected = TRUE, ![w].loop = TRUE, ![w].pc = "test"]
    /\ UNCHANGED <<genvars, sim>>

\* while self._running.is_set(): the loop is left for the finally block, or
\* its body begins (a pass over combos in message_simulator.py).
TestRunning(w) ==
    /\ w \in DOMAIN threads
    /\ threads[w].pc = "test"
    /\ threads' =
          IF ~threads[w].running THEN [threads EXCEPT ![w].pc = "finally"]
          ELSE IF threads[w].kind = "Subscriber" THEN [threads EXCEPT ![w].pc = "sleep"]
          ELSE IF sim.program = "simulator" THEN [threads EXCEPT ![w].pc = "publish"]
          ELSE [threads EXCEPT ![w].pc = "for", ![w].idx = 0]
    /\ UNCHANGED <<genvars, sim>>

\* A pass that tests the flag before every combination.
ForCombosWhileRunning(w) ==
    /\ w \in DOMAIN threads
    /\ threads[w].pc = "for"
    /\ threads' =
          IF ~threads[w].running THEN [threads EXCEPT ![w].pc = "test"]
          ELSE IF threads[w].idx < threads[w].combos THEN [threads EXCEPT ![w].pc = "publish"]
          ELSE IF threads[w].combos <= 1 THEN [threads EXCEPT ![w].pc = "pause"]
          ELSE [threads EXCEPT ![w].pc = "test"]
    /\ UNCHANGED <<genvars, sim>>

\* for values in combos (message_simulator.py, lines 93 and 100-102): the
\* next combination, or the end of the pass.
ForCombos(w) ==
    /\ w \in DOMAIN threads
    /\ threads[w].pc = "for"
    /\ threads' =
          IF threads[w].idx < threads[w].combos THEN [threads EXCEPT ![w].pc = "publish"]
          ELSE IF threads[w].combos <= 1 THEN [threads EXCEPT ![w].pc = "pause"]
          ELSE [threads EXCEPT ![w].pc = "test"]
    /\ UNCHANGED <<genvars, sim>>

\* client.publish and time.sleep(self.interval): simulator.py lines 67-74,
\* message_simulator.py lines 94-99.
Publish(w) ==
    /\ w \in DOMAIN threads
    /\ threads[w].pc = "publish"
    /\ threads' =
          [threads EXCEPT
              ![w].pc = IF sim.program = "simulator" THEN "test" ELSE "for",
              ![w].idx = IF sim.program = "simulator" THEN 0 ELSE @ + 1,
              ![w].after_stop = IF threads[w].running THEN 0 ELSE @ + 1]
    /\ UNCHANGED <<genvars, sim>>

\* The sleep that avoids a tight loop (message_simulator.py, line 102).
Pause(w) ==
    /\ w \in DOMAIN threads
    /\ threads[w].pc = "pause"
    /\ threads' = [threads EXCEPT ![w].pc = "test"]
    /\ UNCHANGED <<genvars, sim>>

\* time.sleep(1) of Subscriber.run.
Sleep(w) ==
    /\ w \in DOMAIN threads
    /\ threads[w].pc = "sleep"
    /\ threads' = [threads EXCEPT ![w].pc = "test"]
    /\ UNCHANGED <<genvars, sim>>

\* The finally block: loop_stop, disconnect and, in the Subscriber of
\* message_simulator.py, csv_fp.close().
Finally(w) ==
    /\ w \in DOMAIN threads
    /\ threads[w].pc = "finally"
    /\ threads' = [threads EXCEPT ![w].loop = FALSE, ![w].connected = FALSE,
                                  ![w].csv_open = FALSE, ![w].pc = "finished"]
    /\ UNCHANGED <<genvars, sim>>

ThreadStep(w) ==
    \/ Start(w)
    \/ TestRunning(w)
    \/ ForCombos(w)
    \/ Publish(w)
    \/ Pause(w)
    \/ Sleep(w)
    \/ Finally(w)

\* A stop() that clears the flag of every thread, as one shared Event would.
stop_all(ts, w) ==
    [v \in DOMAIN ts |->
        [ts[v] EXCEPT !.running = FALSE,
                      !.at_stop = IF ts[v].running
                                  THEN [pc |-> ts[v].pc, idx |-> ts[v].idx] ELSE @]]

\* stop(): self._running.clear()
stop(ts, w) ==
    [ts EXCEPT ![w].running = FALSE,
               ![w].at_stop = [pc |-> ts[w].pc, idx |-> ts[w].idx]]

\* main(): the duration has passed, or the user has interrupted.
Wake ==
    /\ sim.pc = "sleep"
    /\ sim' = [sim EXCEPT !.pc = "stop", !.next = 1]
    /\ UNCHANGED <<genvars, threads>>

\* One stop() call of the finally block of main().
StopNext ==
    /\ sim.pc = "stop"
    /\ sim.next <= Len(StopOrder(threads))
    /\ threads' = stop(threads, StopOrder(threads)[sim.next])
    /\ sim' = [sim EXCEPT !.next = @ + 1]
    /\ UNCHANGED genvars

\* time.sleep(1) and print("Stopped.") at the end of main().
Stopped ==
    /\ sim.pc = "stop"
    /\ sim.next > Len(StopOrder(threads))
    /\ sim' = [sim EXCEPT !.pc = "stopped"]
    /\ UNCHANGED <<genvars, threads>>

\* The numbers of payload combinations of the two publishers: any number for
\* the first, none or the largest for the second.
ComboChoices == {<<a, b>> : a \in 0..MaxCombos, b \in {0, MaxCombos}}

InitSim ==
    /\ cfg = Config(<<>>, <<>>, <<>>, <<>>, None, <<>>, None)
    /\ args = [max_policies |-> None, seed |-> None]
    /\ pc = "none"
    /\ rng = [seeded |-> FALSE, state |-> 0]
    /\ todo = <<>>
    /\ rules = <<>>
    /\ grouped = <<>>
    /\ gi = 0
    /\ uniq = <<>>
    /\ n_uniq = 0
    /\ by_pattern = <<>>
    /\ generalized = FALSE
    /\ out = <<>>
    /\ run = 1
    /\ first_out = <<>>
    /\ \E program \in {"simulator", "message_simulator"}, with_subscriber \in BOOLEAN :
       \E combos \in (IF program = "simulator" THEN {<<1, 1>>} ELSE ComboChoices) :
          /\ threads = Started(program, combos, with_subscriber)
          /\ sim = [program |-> program, pc |-> "sleep", next |-> 0]

NextSim ==
    \/ \E w \in ThreadNames : Start(w)
    \/ \E w \in ThreadNames : TestRunning(w)
    \/ \E w \in ThreadNames : ForCombos(w)
    \/ \E w \in ThreadNames : Publish(w)
    \/ \E w \in ThreadNames : Pause(w)
    \/ \E w \in ThreadNames : Sleep(w)
    \/ \E w \in ThreadNames : Finally(w)
    \/ Wake
    \/ StopNext
    \/ Stopped

\* Every thread that can take a step eventually takes one.
SpecSim ==
    /\ InitSim
    /\ [][NextSim]_vars
    /\ \A w \in ThreadNames : WF_vars(ThreadStep(w))

-----------------------------------------------------------------------------
(* Properties *)

\* Two rules share the identity key (topic, static, dynamic, priority).
SameIdentity(a, b) ==
    /\ a.topic = b.topic
    /\ a.static = b.static
    /\ a.dynamic = b.dynamic
    /\ a.priority = b.priority

\* The effective budget of the run.
Budget == MaxPolicies(args, cfg)

\* The deduplication loop has finalized every group; uniq is its output.
DedupDone == pc = "finalize" /\ gi > Len(grouped)

\* C1: the list handed to write_sql holds no two rules that share the
\* identity key (topic, static, dynamic, priority).
C1_NoSharedIdentity ==
    pc = "done" =>
        \A i, j \in 1..Len(out) : SameIdentity(out[i], out[j]) => i = j

\* C2: when the deduplicated rules outnumber a budget above zero, the list
\* handed to write_sql holds exactly as many rules as the budget, under
\* every strategy and grouping key.
C2_OverBudgetExact ==
    (pc = "done" /\ Budget > 0 /\ n_uniq > Budget) => Len(out) = Budget

\* A run over budget whose patterns were fewer than the budget, so that the
\* backfill pass had to add rules to reach it.
C2_RefilledToBudget ==
    /\ pc = "done"
    /\ generalized
    /\ n_uniq > Budget
    /\ Len(by_pattern) < Budget
    /\ Len(out) = Budget

\* C3: when the deduplicated rules do not outnumber the budget, the list
\* handed to write_sql holds exactly as many rules as the deduplication left.
C3_UnderBudgetKeepsCount ==
    (pc = "done" /\ n_uniq <= Budget) => Len(out) = n_uniq

\* C4: the output of the deduplication holds exactly one rule for every
\* identity key of the raw rules, and no rule of any other identity key.
C4_OneRulePerIdentity ==
    DedupDone =>
        /\ \A i, j \in 1..Len(uniq) : SameIdentity(uniq[i], uniq[j]) => i = j
        /\ \A i \in 1..Len(rules) : \E j \in 1..Len(uniq) : SameIdentity(rules[i], uniq[j])
        /\ \A j \in 1..Len(uniq) : \E i \in 1..Len(rules) : SameIdentity(rules[i], uniq[j])

\* A deduplication that merged raw rules and still left several identities.
C4_MergedSeveral == DedupDone /\ Len(uniq) >= 2 /\ Len(rules) > Len(uniq)

\* How many raw rules of the identity of r carry action a.
CountIn(r, a) ==
    Cardinality({j \in 1..Len(rules) : SameIdentity(rules[j], r) /\ rules[j].action = a})

\* C5: the action of every deduplicated rule is one whose count among the raw
\* rules of its identity is maximal, whatever the draw and the weights; so a
\* single most frequent action is the one chosen.
C5_MajorityAction ==
    pc = "finalize" =>
        \A i \in 1..Len(uniq) : \A j \in 1..Len(rules) :
            SameIdentity(rules[j], uniq[i])
                => CountIn(uniq[i], rules[j].action) <= CountIn(uniq[i], uniq[i].action)

\* Raw actions [grant, grant, deny] resolved to grant under global weights
\* that favour deny.
C5_GrantGrantDeny ==
    /\ DedupDone
    /\ cfg.action_probabilities = DenyHeavy
    /\ \E i \in 1..Len(uniq) :
          /\ uniq[i].action = "grant"
          /\ CountIn(uniq[i], "grant") = 2
          /\ CountIn(uniq[i], "deny") = 1

\* C6: with a seed, the generator is seeded before any rule is generated, and
\* a second run over the same configuration and command line hands write_sql
\* the same rules in the same order as the first.
C6_SeededRunsAgree ==
    /\ pc /= "start" => rng.seeded
    /\ (run = 2 /\ pc = "done") => out = first_out

\* A second seeded run finished, over weights that made the draws decide the
\* actions: the output holds two actions.
C6_SecondRunWithDraws ==
    /\ run = 2
    /\ pc = "done"
    /\ cfg.action_probabilities /= <<>>
    /\ \E i, j \in 1..Len(out) : out[i].action /= out[j].action

\* A topic is non-empty, has no doubled separator, and neither starts nor
\* ends with a separator unless it is '#' alone.
Normalized(t) ==
    /\ t /= <<>>
    /\ \A i \in 1..(Len(t) - 1) : ~(t[i] = SLASH /\ t[i + 1] = SLASH)
    /\ t = <<HASH>> \/ (Head(t) /= SLASH /\ Last(t) /= SLASH)

\* C7: every topic of every rule of expand_base_policies and of
\* generate_user_attribute_rules is normalized.
C7_TopicsNormalized == \A i \in 1..Len(rules) : Normalized(rules[i].topic)

\* The topic building/floor/room/device/#.
Scope(b, f, r, d) == <<b, SLASH, f, SLASH, r, SLASH, d, SLASH, HASH>>

\* C8: with budget 1 and the two unique rules b1/f1/r1/cam/# and
\* b1/f1/r2/cam/# of one static predicate and one priority, the output is the
\* one rule of topic b1/f1/+/cam/#.
C8_RoomLevelPattern ==
    ( /\ pc = "done"
      /\ cfg.base_policies = <<CamDeny>>
      /\ cfg.expansions = TwoRooms
      /\ cfg.users = <<>>
      /\ cfg.generalization = [grouping_key |-> None, distribution_strategy |-> None]
      /\ Budget = 1 )
    => [i \in 1..Len(out) |-> out[i].topic] = << Scope("b1", "f1", "+", "cam") >>

\* The number of values a dimension contributes: an unset or empty list
\* counts as the single value ''.
ValueCount(ex, d) ==
    LET S == {i \in 1..Len(ex) : ex[i].key = d}
    IN  IF S = {} THEN 1 ELSE Max2(1, Len(ex[CHOOSE i \in S : TRUE].vals))

RECURSIVE ProductOf(_)
ProductOf(ns) == IF ns = <<>> THEN 1 ELSE Head(ns) * ProductOf(Tail(ns))

\* The number of values of the inclusive range min..max by step.
RangeCount(p) ==
    IF p.range = None THEN 1
    ELSE ((p.range[1].max - p.range[1].min) \div p.range[1].step) + 1

\* One rule per combination of dimension values and per range value.
ExpectedRules(p, ex) ==
    ProductOf([i \in 1..Len(p.expand_on) |-> ValueCount(ex, p.expand_on[i])])
        * RangeCount(p)

\* C9: expand_base_policies emits one rule per combination of the values of
\* the dimensions of expand_on and per value of the inclusive range; two
\* buildings give the two topics b1/f1/r1/cam/# and b2/f1/r1/cam/#, and the
\* range from 0 with static 'lvl=={v}' gives lvl==0, lvl==1, ...
C9_OneRulePerCombinationAndStep ==
    pc = "expand" =>
        /\ Len(rules) + Len(todo) =
               SumSeq([i \in 1..Len(cfg.base_policies) |->
                          ExpectedRules(cfg.base_policies[i], cfg.expansions)])
        /\ (todo = <<>> /\ cfg.base_policies = <<CamDeny>> /\ cfg.expansions = TwoBuildings)
              => [i \in 1..Len(rules) |-> rules[i].topic]
                     = << Scope("b1", "f1", "r1", "cam"), Scope("b2", "f1", "r1", "cam") >>
        /\ (todo = <<>> /\ cfg.base_policies = <<Lvl>>)
              => [i \in 1..Len(rules) |-> rules[i].static]
                     = [v \in 1..(MaxRange + 1) |-> "lvl==" \o ToString(v - 1)]

\* An expansion over both a product of dimensions and a range, finished.
C9_ProductTimesRange ==
    /\ pc = "expand"
    /\ todo = <<>>
    /\ Len(rules) >= 4
    /\ \E i \in 1..Len(cfg.base_policies) :
          /\ cfg.base_policies[i].range /= None
          /\ cfg.base_policies[i].expand_on /= <<>>
          /\ ValueCount(cfg.expansions, "rooms") = 2

\* The value lists of the non-device dimensions that hold a value.
DimensionLists(ex) ==
    LET named == SelectSeq(ex, LAMBDA e : e.key \notin {"devices", "device_types"}
                                          /\ e.vals /= <<>>)
    IN  [i \in 1..Len(named) |-> named[i].vals]

\* '<dimensions>/<device>/#' for one combination of dimension values.
ScopeOf(combo, dev) ==
    Flatten([i \in 1..Len(combo) |-> <<combo[i], SLASH>>]) \o <<dev, SLASH, HASH>>

\* The devices of the capability 'video'.
VideoDevices(c) ==
    IF c.device_capability_map = None THEN <<"cam">>
    ELSE c.device_capability_map[1][1].devs

\* How many rules carry this topic, static predicate and priority.
RulesWith(topic, static, priority) ==
    Cardinality({i \in 1..Len(rules) : /\ rules[i].topic = topic
                                       /\ rules[i].static = static
                                       /\ rules[i].priority = priority})

\* C10: for user alice with the capability video, every device of video and
\* every combination of dimension values get exactly one per-user rule
\* (static subj.username=='alice', the user's priority) and exactly one
\* generic rule (static 'subj.video ?? false', priority 5), both of topic
\* '<dimensions>/<device>/#', and no other rule carries these predicates.
C10_CapabilityGrants ==
    (pc = "derive" /\ todo = <<>> /\ cfg.users = Alice) =>
        LET combos == Product(DimensionLists(cfg.expansions))
            devs == VideoDevices(cfg)
            clearance == IF \E i \in 1..Len(cfg.user_attributes) :
                                cfg.user_attributes[i].name = "clearance"
                         THEN 1 ELSE 0
            prio == 1 + clearance * cfg.clearance_priority_multiplier
            user == "subj.username=='alice'"
            generic == "subj.video ?? false"
        IN  /\ \A i \in 1..Len(combos), d \in 1..Len(devs) :
                  /\ RulesWith(ScopeOf(combos[i], devs[d]), user, prio) = 1
                  /\ RulesWith(ScopeOf(combos[i], devs[d]), generic, 5) = 1
            /\ Cardinality({i \in 1..Len(rules) : rules[i].static = user})
                   = Len(combos) * Len(devs)
            /\ Cardinality({i \in 1..Len(rules) : rules[i].static = generic})
                   = Len(combos) * Len(devs)

\* The weight table choose_action reads for a policy: the policy's own when
\* it has entries, the global one otherwise.
TableOf(policy) ==
    IF policy.action_probabilities /= <<>> THEN policy.action_probabilities
    ELSE cfg.action_probabilities

\* The actions of a table that carry a positive numeric weight.
PositiveKeys(table) ==
    {table[i].k : i \in {j \in 1..Len(table) : table[j].num /\ table[j].w > 0}}

\* The declared action of a policy, 'deny' when it declares none.
Fallback(policy) == IF policy.action = None THEN "deny" ELSE policy.action[1]

\* A rule was appended in this step: choose_action was called on the policy
\* at the head of todo.
Chose == pc \in {"expand", "derive"} /\ Len(rules') = Len(rules) + 1

\* C11: without an entry of positive numeric weight choose_action returns
\* the declared action ('deny' by default) and leaves the generator as it
\* was; with one, the action returned carries a positive numeric weight.
C11_FallbackWithoutPositiveWeight ==
    [][Chose =>
         LET policy == Head(todo).policy
             a == rules'[Len(rules')].action
         IN  IF PositiveKeys(TableOf(policy)) = {}
             THEN a = Fallback(policy) /\ rng' = rng
             ELSE a \in PositiveKeys(TableOf(policy))]_vars

\* A seeded run whose template has a table of non-positive weights over a
\* global table of positive ones: the declared action was returned and the
\* generator is still in the state the seed gave it.
C11_DeclaredActionNoDraw ==
    /\ pc = "expand"
    /\ Len(rules) = 1
    /\ cfg.base_policies[1].action_probabilities = <<Weight("grant", 0), Weight("deny", -1)>>
    /\ PositiveKeys(cfg.action_probabilities) /= {}
    /\ rng = [seeded |-> TRUE, state |-> cfg.seed[1] % RngModulus]
    /\ rng.state % DrawGrid /= 0
    /\ rules[1].action = "grant"

\* No budget is configured and none is given on the command line.
BudgetMissing == args.max_policies = None /\ cfg.max_policies = None

\* The budget in force is zero: from the configuration with no override or
\* an override of zero, or from an override over no configured budget.
BudgetZero ==
    \/ cfg.max_policies = Some(0) /\ args.max_policies \in {None, Some(0)}
    \/ cfg.max_policies = None /\ args.max_policies = Some(0)

\* C12: with a missing or a zero budget neither the generalization nor the
\* backfill runs: the list handed to write_sql is the output of the
\* deduplication.
C12_NoBudgetNoLimit ==
    (pc = "done" /\ (BudgetMissing \/ BudgetZero)) => (~generalized /\ out = uniq)

\* C13: every rule handed to write_sql has one of the actions grant, deny
\* and filter, whatever the declared actions and the weight tables.
C13_ActionEnumerated ==
    pc = "done" => \A i \in 1..Len(out) : out[i].action \in {"grant", "deny", "filter"}

\* The tuple (topic, static, dynamic, priority, action) of a rule.
FullTuple(r) == <<r.topic, r.static, r.dynamic, r.priority, r.action>>

\* How often the identity key of r occurred with the action of r among the
\* raw rules.
RawCount(r) == CountIn(r, r.action)

\* C14: the backfill leaves the list alone unless it is shorter than the
\* budget; what it appends occurred as (identity key, action) among the raw
\* rules, is not in the list already, comes in non-increasing order of
\* (raw count, priority), and ends at the budget or when there is no
\* candidate left.
C14_BackfillWithinBudget ==
    pc = "done" =>
        /\ Len(out) >= Len(uniq)
        /\ SubSeq(out, 1, Len(uniq)) = uniq
        /\ (Budget <= 0 \/ Len(uniq) >= Budget) => out = uniq
        /\ Len(out) > Len(uniq) => Len(out) <= Budget
        /\ \A i \in (Len(uniq) + 1)..Len(out) :
              /\ RawCount(out[i]) >= 1
              /\ \A j \in 1..(i - 1) : FullTuple(out[j]) /= FullTuple(out[i])
              /\ i < Len(out) =>
                    \/ RawCount(out[i]) > RawCount(out[i + 1])
                    \/ /\ RawCount(out[i]) = RawCount(out[i + 1])
                       /\ out[i].priority >= out[i + 1].priority
        /\ (Budget > 0 /\ Len(out) < Budget) =>
              \A k \in 1..Len(rules) :
                  \E i \in 1..Len(out) : FullTuple(out[i]) = FullTuple(rules[k])

\* A backfill that appended a candidate of higher count and lower priority
\* ahead of one of lower count and higher priority.
C14_CountBeforePriority ==
    /\ pc = "done"
    /\ \E i, j \in (Len(uniq) + 1)..Len(out) :
          /\ i < j
          /\ RawCount(out[i]) > RawCount(out[j])
          /\ out[i].priority < out[j].priority

\* The tests of the generalization and of the backfill saw budget b.
BudgetUsed(b) ==
    /\ generalized <=> (b > 0 /\ n_uniq > b)
    /\ Len(out) > Len(uniq) => (b > 0 /\ Len(uniq) < b)

\* The seed of the command line is the one the generator got.
SeedOverrideUsed ==
    (pc = "expand" /\ rules = <<>> /\ args.seed /= None)
        => rng = [seeded |-> TRUE, state |-> args.seed[1] % RngModulus]

\* C15: a budget given on the command line, 0 included, is the budget of the
\* generalization test and of the backfill test, whatever the configuration
\* says; a seed given on the command line is the seed used.
C15_OverridePrecedence ==
    /\ (pc = "done" /\ args.max_policies /= None) => BudgetUsed(args.max_policies[1])
    /\ SeedOverrideUsed

\* The user id of an attribute record is held by a user record.
HasUser(a) == \E i \in 1..Len(cfg.users) : cfg.users[i].userid = a.uid

\* The configuration without the attribute records of unknown user ids.
WithoutOrphans ==
    [cfg EXCEPT !.user_attributes = SelectSeq(cfg.user_attributes, HasUser)]

\* A rule and a rule instance agree on every field of the rule.
SameRule(r, inst) ==
    /\ r.topic = inst.topic
    /\ r.static = inst.static
    /\ r.dynamic = inst.dynamic
    /\ r.filter = inst.filter
    /\ r.hints = inst.hints
    /\ r.priority = inst.priority

\* C16: attribute records of a user id without a user record give no rule,
\* and the rules of generate_user_attribute_rules are those of the
\* configuration without these records, in the same order.
C16_OrphanAttributesSkipped ==
    pc = "derive" =>
        LET nb == Len(expand_base_policies(cfg))
            expected == generate_user_attribute_rules(WithoutOrphans)
            done == Len(rules) - nb
        IN  /\ done + Len(todo) = Len(expected)
            /\ \A i \in 1..done : SameRule(rules[nb + i], expected[i])
            /\ \A i \in 1..Len(todo) : todo[i] = expected[done + i]
            /\ (\A i \in 1..Len(cfg.user_attributes) :
                    cfg.user_attributes[i].name = "alarm" => ~HasUser(cfg.user_attributes[i]))
                  => \A i \in 1..Len(rules) : rules[i].static /= "subj.alarm ?? false"

\* The rules of alice are all chosen, beside attribute records of user id 2
\* that name a capability and the intern role.
C16_OrphanBesideAlice ==
    /\ pc = "derive"
    /\ todo = <<>>
    /\ \E i \in 1..Len(cfg.user_attributes) :
          ~HasUser(cfg.user_attributes[i]) /\ cfg.user_attributes[i].name = "role"
    /\ \E i \in 1..Len(rules) : rules[i].static = "subj.video ?? false"

\* The first entry whose interval [cum - weight, cum) holds r = d/DrawGrid * total:
\* a draw on the boundary of two intervals belongs to the later one.
UpperPick(items, d) ==
    LET total == TotalWeight(items)
        hit == {i \in 1..Len(items) : d * total < CumWeight(items, i) * DrawGrid}
    IN  items[CHOOSE i \in hit : \A j \in hit : i <= j].k

\* The draw is the upper end of the interval of an entry before the last.
OnBoundary(items, d) ==
    \E i \in 1..(Len(items) - 1) : d * TotalWeight(items) = CumWeight(items, i) * DrawGrid

\* C17: when choose_action draws, it returns the first action whose
\* cumulative weight interval holds the draw from [0, total), a draw on the
\* boundary of two consecutive intervals giving the later entry.
C17_BoundaryToUpperEntry ==
    [][(Chose /\ ChooseDraws(Head(todo).policy, cfg)) =>
          rules'[Len(rules')].action =
              UpperPick(PositiveItems(EffectiveProbs(Head(todo).policy, cfg)),
                        rng.state % DrawGrid)]_vars

\* The parts of a topic joined by '/' again.
RECURSIVE JoinParts(_)
JoinParts(parts) ==
    IF Len(parts) = 1 THEN parts[1]
    ELSE parts[1] \o <<SLASH>> \o JoinParts(Tail(parts))

\* The chain of a topic of four segments or more: room, then room and floor,
\* then room, floor and building replaced by '+', everything after the room
\* kept, and the catch-all '#'.
ExpectedChain(topic) ==
    LET parts == SplitOn(topic, SLASH)
        kept == JoinParts(SubSeq(parts, 4, Len(parts)))
    IN  << [pattern |-> parts[1] \o <<SLASH>> \o parts[2] \o <<SLASH, "+", SLASH>> \o kept,
            specificity |-> 3],
           [pattern |-> parts[1] \o <<SLASH, "+", SLASH, "+", SLASH>> \o kept,
            specificity |-> 2],
           [pattern |-> <<"+", SLASH, "+", SLASH, "+", SLASH>> \o kept, specificity |-> 1],
           [pattern |-> <<HASH>>, specificity |-> 0] >>

\* by_pattern holds a candidate of this topic for the rule's static predicate
\* and priority, recorded with this specificity.
HasCandidate(bp, topic, r, specificity) ==
    \E i \in 1..Len(bp) : /\ bp[i].key = PatternKey(topic, r)
                          /\ bp[i].rule.topic = topic
                          /\ bp[i].specificity = specificity

Reverse(s) == [i \in 1..Len(s) |-> s[Len(s) + 1 - i]]

\* The candidates of a rule: its chain, or itself when its topic is short.
ChainHeld(bp, r) ==
    IF Len(SplitOn(r.topic, SLASH)) >= 4
    THEN \A j \in 1..4 : HasCandidate(bp, ExpectedChain(r.topic)[j].pattern, r,
                                      ExpectedChain(r.topic)[j].specificity)
    ELSE HasCandidate(bp, r.topic, r, ShortSpecificity)

\* Every key has the specificity it gets when the rules come in the
\* opposite order.
OrderFree(bp, rs) ==
    LET other == BuildByPattern(<<>>, Reverse(rs))
    IN  \A i \in 1..Len(bp) : \A j \in 1..Len(other) :
            bp[i].key = other[j].key => bp[i].specificity = other[j].specificity

\* C18: when the reducer has built by_pattern, every unique rule of four
\* segments or more has its four candidates (ranks 3, 2, 1 with the device
\* segment and the suffix kept, and '#' with rank 0), every shorter rule is
\* held unchanged with rank 4, and the recorded ranks do not depend on the
\* order of the rules.
C18_GeneralizationChain ==
    (pc = "resolve") =>
        /\ \A i \in 1..Len(uniq) : ChainHeld(by_pattern, uniq[i])
        /\ OrderFree(by_pattern, uniq)

\* The candidate of by_pattern a selected rule comes from: its key is the
\* rule's topic, static predicate and priority.
EntryOf(r) == IndexOfKey(by_pattern, PatternKey(r.topic, r))

\* Candidate x ranks strictly higher than candidate y: priority, then
\* specificity, then occurrence count.
Outranks(x, y) ==
    \/ x.rule.priority > y.rule.priority
    \/ /\ x.rule.priority = y.rule.priority
       /\ \/ x.specificity > y.specificity
          \/ x.specificity = y.specificity /\ x.count > y.count

\* The reducer ran and the selection is about to be backfilled.
Selected == pc = "backfill" /\ generalized

DefaultStrategy ==
    DistributionOf(cfg) \notin {"round_robin", "proportional", "priority_buckets"}

\* C19: under any strategy other than round_robin, proportional and
\* priority_buckets the selected rules are the rules of min(budget,
\* candidates) distinct candidates, in non-increasing (priority, specificity,
\* count) order, and no candidate left out ranks strictly higher than a
\* selected one.
C19_DefaultTakesGlobalTop ==
    (Selected /\ DefaultStrategy) =>
        /\ Len(uniq) = Min2(Budget, Len(by_pattern))
        /\ \A j \in 1..Len(uniq) :
              EntryOf(uniq[j]) > 0 /\ by_pattern[EntryOf(uniq[j])].rule = uniq[j]
        /\ \A j, k \in 1..Len(uniq) :
              j < k => /\ EntryOf(uniq[j]) /= EntryOf(uniq[k])
                       /\ ~Outranks(by_pattern[EntryOf(uniq[k])],
                                    by_pattern[EntryOf(uniq[j])])
        /\ \A i \in 1..Len(by_pattern) :
              (\A j \in 1..Len(uniq) : EntryOf(uniq[j]) /= i)
                  => \A j \in 1..Len(uniq) :
                        ~Outranks(by_pattern[i], by_pattern[EntryOf(uniq[j])])

\* The top candidate is not in the first group: its priority is above that
\* of every candidate of the group created first, and candidates are left out.
C19_TopOutsideFirstGroup ==
    /\ Selected
    /\ DefaultStrategy
    /\ Len(uniq) < Len(by_pattern)
    /\ uniq /= <<>>
    /\ LET gs == Groups(by_pattern, GroupingKeyOf(cfg))
       IN  /\ Len(gs) > 1
           /\ \A i \in 1..Len(gs[1].items) : gs[1].items[i].rule.priority < uniq[1].priority

\* The group of a rule under the configured grouping key.
GroupOf(r) == GroupKey(r, GroupingKeyOf(cfg))

\* The candidates of a group, and its total priority mass.
Members(g) == SelectSeq(by_pattern, LAMBDA e : GroupOf(e.rule) = g)
Mass(g) == SumSeq([i \in 1..Len(Members(g)) |-> Members(g)[i].rule.priority])

GroupNames == {GroupOf(by_pattern[i].rule) : i \in 1..Len(by_pattern)}

\* The positions from a to b of the selection that pick from group g.
PicksOf(g, a, b) == {j \in a..b : j <= Len(uniq) /\ GroupOf(uniq[j]) = g}

\* Group g has items left after the first j picks.
LeftAfter(g, j) == Len(Members(g)) > Cardinality(PicksOf(g, 1, j))

\* Positions j < k are consecutive picks of one group.
ConsecutivePicks(j, k) ==
    /\ j < k
    /\ GroupOf(uniq[j]) = GroupOf(uniq[k])
    /\ PicksOf(GroupOf(uniq[j]), j + 1, k - 1) = {}

RoundRobinStrategy == DistributionOf(cfg) = "round_robin"

\* C20: under round_robin the selection has min(budget, candidates) rules of
\* distinct candidates; the first visits go to distinct groups in
\* non-increasing priority mass, no group left unvisited being heavier; each
\* pick is the best remaining item of its group; and between two consecutive
\* picks of one group every other group that still had items is picked
\* exactly once, every other group not at all.
C20_RoundRobinCycles ==
    (Selected /\ RoundRobinStrategy) =>
        LET n == Len(uniq)
            first == Min2(n, Cardinality(GroupNames))
        IN  /\ n = Min2(Budget, Len(by_pattern))
            /\ \A j \in 1..n :
                  EntryOf(uniq[j]) > 0 /\ by_pattern[EntryOf(uniq[j])].rule = uniq[j]
            /\ \A j, k \in 1..n : j < k => EntryOf(uniq[j]) /= EntryOf(uniq[k])
            /\ \A j, k \in 1..first :
                  j < k => /\ GroupOf(uniq[j]) /= GroupOf(uniq[k])
                           /\ Mass(GroupOf(uniq[j])) >= Mass(GroupOf(uniq[k]))
            /\ \A g \in GroupNames :
                  PicksOf(g, 1, first) = {}
                      => \A j \in 1..first : Mass(GroupOf(uniq[j])) >= Mass(g)
            /\ \A j \in 1..n : \A i \in 1..Len(by_pattern) :
                  ( /\ GroupOf(by_pattern[i].rule) = GroupOf(uniq[j])
                    /\ \A k \in 1..j : EntryOf(uniq[k]) /= i )
                      => ~Outranks(by_pattern[i], by_pattern[EntryOf(uniq[j])])
            /\ \A j, k \in 1..n :
                  ConsecutivePicks(j, k) =>
                      \A g \in GroupNames \ {GroupOf(uniq[j])} :
                          Cardinality(PicksOf(g, j + 1, k - 1))
                              = IF LeftAfter(g, j) THEN 1 ELSE 0

\* A group is picked twice with one pick of another group in between, and
\* candidates are left out.
C20_SecondRound ==
    /\ Selected
    /\ RoundRobinStrategy
    /\ Len(uniq) < Len(by_pattern)
    /\ \E j, k \in 1..Len(uniq) : ConsecutivePicks(j, k) /\ k > j + 1

ProportionalStrategy == DistributionOf(cfg) = "proportional"

\* The occurrence count of a group and of all candidates.
Occurrences(g) == SumSeq([i \in 1..Len(Members(g)) |-> Members(g)[i].count])
TotalOccurrences == SumSeq([i \in 1..Len(by_pattern) |-> by_pattern[i].count])

\* max(1, round(group count / total count * budget))
Quota(g) == Max2(1, RoundHalfEven(Occurrences(g) * Budget, TotalOccurrences))

\* The groups in the order in which their first candidate was created.
FirstMember(g) ==
    CHOOSE i \in 1..Len(by_pattern) :
        /\ GroupOf(by_pattern[i].rule) = g
        /\ \A j \in 1..(i - 1) : GroupOf(by_pattern[j].rule) /= g
GroupAt(n) ==
    CHOOSE g \in GroupNames :
        Cardinality({h \in GroupNames : FirstMember(h) < FirstMember(g)}) = n - 1

\* The number of rules the groups 1..n take in the quota pass: each group
\* its quota, at most its size and at most what the budget leaves.
RECURSIVE QuotaTaken(_)
QuotaTaken(n) ==
    IF n = 0 THEN 0
    ELSE LET before == QuotaTaken(n - 1)
             g == GroupAt(n)
         IN  before + Min2(Min2(Quota(g), Len(Members(g))), Max2(0, Budget - before))

\* The positions a..b of the selection are best remaining items of their
\* pool (the candidates of group g, or all candidates when g is ""), in
\* non-increasing rank.
BestOf(a, b, g) ==
    LET pool == {i \in 1..Len(by_pattern) : g /= "" => GroupOf(by_pattern[i].rule) = g}
        entry == [j \in 1..Len(uniq) |-> EntryOf(uniq[j])]
    IN  \A j \in a..b :
            /\ entry[j] \in pool
            /\ \A i \in pool :
                  (\A k \in 1..j : entry[k] /= i)
                      => ~Outranks(by_pattern[i], by_pattern[entry[j]])

DistinctCandidates ==
    /\ \A j \in 1..Len(uniq) :
          EntryOf(uniq[j]) > 0 /\ by_pattern[EntryOf(uniq[j])].rule = uniq[j]
    /\ \A j, k \in 1..Len(uniq) : j < k => EntryOf(uniq[j]) /= EntryOf(uniq[k])

\* C21 as stated: under proportional every group has its min(quota, size)
\* best items selected, the selection holds no candidate twice and does not
\* exceed the budget.
C21_EveryGroupItsQuota ==
    (Selected /\ ProportionalStrategy) =>
        /\ DistinctCandidates
        /\ Len(uniq) <= Budget
        /\ \A g \in GroupNames :
              Cardinality(PicksOf(g, 1, Len(uniq))) >= Min2(Quota(g), Len(Members(g)))

\* C21 amended: the groups are served in the order of their creation, each
\* taking its min(quota, size) best items cut short where the budget is
\* reached; the rest of the budget goes to the best remaining candidates of
\* any group; min(budget, candidates) distinct candidates are selected.
C21_QuotaWithinBudget ==
    (Selected /\ ProportionalStrategy) =>
        LET m == Cardinality(GroupNames)
            order == [n \in 1..m |-> GroupAt(n)]
            taken == [n \in 0..m |-> QuotaTaken(n)]
        IN  /\ DistinctCandidates
            /\ Len(uniq) = Min2(Budget, Len(by_pattern))
            /\ taken[m] <= Len(uniq)
            /\ \A n \in 1..m : BestOf(taken[n - 1] + 1, taken[n], order[n])
            /\ BestOf(taken[m] + 1, Len(uniq), "")

\* Two groups take their quotas and a shortfall is filled past them.
C21_ShortfallFilled ==
    /\ Selected
    /\ ProportionalStrategy
    /\ Cardinality(GroupNames) > 1
    /\ QuotaTaken(Cardinality(GroupNames)) < Len(uniq)
    /\ \E g \in GroupNames : Quota(g) > Len(Members(g))

PriorityBucketsStrategy == DistributionOf(cfg) = "priority_buckets"

\* The positions from a to b of the selection that pick from group g at
\* priority p.
PicksAt(g, p, a, b) == {j \in PicksOf(g, a, b) : uniq[j].priority = p}

\* Group g has items of priority p left after the first j picks.
LeftAt(g, p, j) ==
    Len(SelectSeq(Members(g), LAMBDA e : e.rule.priority = p))
        > Cardinality(PicksAt(g, p, 1, j))

\* C22: under priority_buckets the selection has min(budget, candidates)
\* distinct candidates; no rule comes after a rule of lower priority; no
\* candidate is left out while one of strictly lower priority is selected;
\* and within one priority the groups take turns: each pick is the best
\* remaining item of its group, and between two consecutive picks of one
\* group every other group with items of that priority left is picked
\* exactly once.
C22_PriorityBucketsDrained ==
    (Selected /\ PriorityBucketsStrategy) =>
        LET n == Len(uniq)
        IN  /\ DistinctCandidates
            /\ n = Min2(Budget, Len(by_pattern))
            /\ \A j, k \in 1..n : j < k => uniq[j].priority >= uniq[k].priority
            /\ \A i \in 1..Len(by_pattern) :
                  (\A j \in 1..n : EntryOf(uniq[j]) /= i)
                      => \A j \in 1..n : by_pattern[i].rule.priority <= uniq[j].priority
            /\ \A j \in 1..n : \A i \in 1..Len(by_pattern) :
                  ( /\ GroupOf(by_pattern[i].rule) = GroupOf(uniq[j])
                    /\ \A k \in 1..j : EntryOf(uniq[k]) /= i )
                      => ~Outranks(by_pattern[i], by_pattern[EntryOf(uniq[j])])
            /\ \A j, k \in 1..n :
                  (ConsecutivePicks(j, k) /\ uniq[j].priority = uniq[k].priority) =>
                      \A g \in GroupNames \ {GroupOf(uniq[j])} :
                          Cardinality(PicksAt(g, uniq[j].priority, j + 1, k - 1))
                              = IF LeftAt(g, uniq[j].priority, j) THEN 1 ELSE 0

\* Within one priority a group is picked twice with a pick of another group
\* in between.
C22_TurnsWithinBucket ==
    /\ Selected
    /\ PriorityBucketsStrategy
    /\ \E j, k \in 1..Len(uniq) :
          /\ ConsecutivePicks(j, k)
          /\ k > j + 1
          /\ \A i \in j..k : uniq[i].priority = uniq[j].priority

\* The value of the last attribute record of this name, or the default.
LastAttr(name, default) ==
    LET S == {i \in 1..Len(cfg.user_attributes) : cfg.user_attributes[i].name = name}
    IN  IF S = {} THEN default
        ELSE cfg.user_attributes[CHOOSE i \in S : \A j \in S : j <= i].val.body

\* The base priority of the role of the role-priority table, 1 when absent.
RoleBase ==
    LET role == LastAttr("role", "")
        S == {i \in 1..Len(cfg.role_priorities) : cfg.role_priorities[i].key = role}
    IN  IF S = {} THEN 1 ELSE cfg.role_priorities[CHOOSE i \in S : TRUE].val

Clearance == IF LastAttr("clearance", "0") = "1" THEN 1 ELSE 0

\* The value of the configuration entry a restriction names, 0 when unset.
NamedEntry(rdef) ==
    IF cfg.security_restriction_bonus = None THEN 0 ELSE cfg.security_restriction_bonus[1]

\* The offsets the claim allows: the literal priority, or the named entry
\* when the restriction names one.
AllowedOffsets(rdef) ==
    {rdef.priority}
        \cup (IF rdef.priority_offset_config = None THEN {} ELSE {NamedEntry(rdef)})

\* The restrictions of the one role of the configuration.
Restrictions ==
    IF cfg.role_restrictions = <<>> THEN <<>> ELSE cfg.role_restrictions[1].defs

RestrictionRulesDone ==
    /\ pc = "derive"
    /\ todo = <<>>
    /\ cfg.role_restrictions /= <<>>

\* C23: every rule of a restriction has priority role base + clearance *
\* multiplier + offset, the offset being the restriction's literal priority
\* or the named configuration entry, never the sum of both.
C23_RestrictionPriority ==
    RestrictionRulesDone =>
        /\ Len(rules) = Len(Restrictions)
        /\ \A i \in 1..Len(rules) :
              \E offset \in AllowedOffsets(Restrictions[i]) :
                  rules[i].priority
                      = RoleBase + Clearance * cfg.clearance_priority_multiplier + offset

\* A thread has left its loop, stopped its client loop and disconnected, and
\* its CSV file is closed.
ShutDown(w) ==
    /\ w \in DOMAIN threads
    /\ threads[w].pc = "finished"
    /\ ~threads[w].loop
    /\ ~threads[w].connected
    /\ ~threads[w].csv_open

StopCalled(w) == w \in DOMAIN threads /\ ~threads[w].running

DistinctOnKey(rs) ==
    \A i, j \in 1..Len(rs) :
        i < j => <<rs[i].topic, rs[i].static, rs[i].priority>>
                    /= <<rs[j].topic, rs[j].static, rs[j].priority>>

\* C25: the rules the reducer selects are pairwise distinct on (topic,
\* static, priority) and come from distinct candidates, and no two rules of
\* the final output share the tuple (topic, static, dynamic, priority,
\* action), whatever the configuration, the budget and the strategy.
C25_OutputWithoutDuplicates ==
    /\ (generalized /\ pc \in {"backfill", "done"}) =>
          DistinctOnKey(uniq) /\ DistinctCandidates
    /\ pc = "done" =>
          \A i, j \in 1..Len(out) : i < j => FullTuple(out[i]) /= FullTuple(out[j])

\* The reducer ran, the backfill appended to its selection, and two rules of
\* the output differ in their dynamic predicate alone.
C25_BackfilledBesideSelection ==
    /\ pc = "done"
    /\ generalized
    /\ Len(out) > Len(uniq)
    /\ \E i, j \in 1..Len(out) :
          /\ i < j
          /\ out[i].topic = out[j].topic
          /\ out[i].static = out[j].static
          /\ out[i].priority = out[j].priority
          /\ out[i].action = out[j].action
          /\ out[i].dynamic /= out[j].dynamic

\* The unique rules that contribute to a candidate: one of their patterns, or
\* their own short topic, has the candidate's key.
Contributes(r, key) ==
    LET parts == SplitOn(r.topic, SLASH)
    IN  IF Len(parts) >= 4
        THEN \E j \in 1..4 : PatternKey(Patterns(parts)[j].pattern, r) = key
        ELSE PatternKey(r.topic, r) = key
Contributors(key) == {i \in 1..Len(uniq) : Contributes(uniq[i], key)}

\* The rank under which a rule first meets the key.
FirstRank(r, key) ==
    LET parts == SplitOn(r.topic, SLASH)
    IN  IF Len(parts) >= 4
        THEN Patterns(parts)[CHOOSE j \in 1..4 :
                 /\ PatternKey(Patterns(parts)[j].pattern, r) = key
                 /\ \A k \in 1..(j - 1) : PatternKey(Patterns(parts)[k].pattern, r) /= key
             ].specificity
        ELSE ShortSpecificity

\* The actions most frequent among the resolved actions of the contributors.
MajorityActions(key) ==
    LET C == Contributors(key)
        votes(a) == Cardinality({i \in C : Lower(uniq[i].action) = a})
        A == {Lower(uniq[i].action) : i \in C}
    IN  {a \in A : \A b \in A : votes(b) <= votes(a)}

AllResolved == pc = "resolve" /\ gi > Len(by_pattern)

\* C26: every candidate of by_pattern has the dynamic predicate, filter,
\* hints and specificity of the first unique rule of its key (generalized
\* topic, static, priority), counts the unique rules that contribute to the
\* key, and has an action most frequent among the contributors' actions.
C26_CandidatesCollapseByKey ==
    AllResolved =>
        \A e \in 1..Len(by_pattern) :
            LET key == by_pattern[e].key
                C == Contributors(key)
                first == uniq[CHOOSE i \in C : \A j \in C : i <= j]
            IN  /\ C /= {}
                /\ \A d \in 1..Len(by_pattern) : by_pattern[d].key = key => d = e
                /\ by_pattern[e].rule.dynamic = first.dynamic
                /\ by_pattern[e].rule.filter = first.filter
                /\ by_pattern[e].rule.hints = first.hints
                /\ by_pattern[e].specificity = FirstRank(first, key)
                /\ by_pattern[e].count = Cardinality(C)
                /\ by_pattern[e].rule.action \in MajorityActions(key)

\* The rule appended in this step derives from a user's attributes.
ChoseForUser == Chose /\ pc = "derive"

\* C27: a rule derived from user attributes has no weight table of its own;
\* it carries its declared action, with no draw, only when the global table
\* has no positive weight, and otherwise an action of positive weight in the
\* global table, the one the draw selects whatever the declared action is.
C27_UserRuleActionFromGlobalTable ==
    [][ChoseForUser =>
         LET policy == Head(todo).policy
             a == rules'[Len(rules')].action
             undeclared == [policy EXCEPT !.action = None]
         IN  /\ policy.action_probabilities = <<>>
             /\ policy.action /= None
             /\ IF PositiveKeys(cfg.action_probabilities) = {}
                THEN a = policy.action[1] /\ rng' = rng
                ELSE /\ a \in PositiveKeys(cfg.action_probabilities)
                     /\ rng' = RngStep(rng)
                     /\ \E d \in RandomDraws(rng) :
                            a = WeightedPick(PositiveItems(cfg.action_probabilities), d)]_vars

\* Rules of alice under a global table with a positive weight: a restriction
\* declared 'deny' and a capability declared 'grant' both carry an action
\* that is not the declared one.
C27_DeclaredActionUnused ==
    /\ pc = "derive"
    /\ todo = <<>>
    /\ PositiveKeys(cfg.action_probabilities) /= {}
    /\ cfg.role_restrictions /= <<>>
    /\ cfg.role_restrictions[1].defs[1].action = Some("deny")
    /\ rules[1].static = UserStatic("alice")
    /\ rules[1].topic = <<"b1", SLASH, HASH>>
    /\ rules[1].action /= "deny"
    /\ \E j \in 1..Len(rules) :
          /\ rules[j].static = GenericStatic("video")
          /\ rules[j].action /= "grant"

\* The messages a stopped publisher has still to publish, from where run()
\* was when stop() was called: in message_simulator.py the combinations of
\* the pass not yet published, in simulator.py the message of the iteration
\* already begun.
DueAfterStop(w) ==
    LET t == threads[w]
    IN  IF sim.program = "message_simulator"
        THEN (IF t.at_stop.pc \in {"for", "publish"} THEN t.combos - t.at_stop.idx ELSE 0)
        ELSE (IF t.at_stop.pc = "publish" THEN 1 ELSE 0)

StoppedPublishers ==
    {w \in DOMAIN threads : threads[w].kind = "Publisher" /\ ~threads[w].running}

\* C28: a stopped Publisher of message_simulator.py publishes every remaining
\* combination of the pass it was in before it disconnects, and nothing
\* more; a stopped Publisher of simulator.py publishes at most one message.
C28_StopTestedBetweenPasses ==
    \A w \in StoppedPublishers :
        /\ threads[w].after_stop <= DueAfterStop(w)
        /\ threads[w].after_stop < DueAfterStop(w) => threads[w].connected
        /\ threads[w].pc = "finished" => threads[w].after_stop = DueAfterStop(w)
        /\ sim.program = "simulator" => DueAfterStop(w) <= 1

\* A publisher of message_simulator.py stopped at the start of a pass has
\* published the whole pass, more than one message, and has disconnected.
C28_WholePassAfterStop ==
    /\ sim.program = "message_simulator"
    /\ \E w \in StoppedPublishers :
          /\ threads[w].pc = "finished"
          /\ threads[w].at_stop.idx = 0
          /\ threads[w].after_stop = MaxCombos
          /\ MaxCombos > 1

====
